---- MODULE Spec2Model ----
(***************************************************************************)
(* Model of vimiv's command line (vimiv/commandline.py): command dispatch, *)
(* history, search and the external-command pipe.  Texts are sequences of  *)
(* one-character strings so that str.lstrip, str.split, indexing and the   *)
(* digit loop of CommandLine.run are computed as the code computes them.   *)
(***************************************************************************)
EXTENDS Integers, Sequences, FiniteSets, TLC

(***************************************************************************)
(* Bounds                                                                  *)
(***************************************************************************)
\* Longest history a submit may produce in the sessions that explore the
\* history.
MaxHist == 3
\* Longest history a submit may produce in the sessions that explore the
\* dispatch of commands.
MaxCmdHist == 1
\* Most external processes in flight at once.
MaxProcs == 1
\* Most Tab presses in one cycle.
MaxTab == 3
\* Most digits typed as a repeat count before a key.
MaxNum == 1

(***************************************************************************)
(* Python string primitives on character sequences                         *)
(***************************************************************************)
Digits == {"0", "1", "2", "3", "4", "5", "6", "7", "8", "9"}
Whitespace == {" ", "\t", "\n"}

\* str.isdigit on one character
isdigit(c) == c \in Digits

\* s[1:]
Tail1(s) == IF s = <<>> THEN <<>> ELSE Tail(s)

RECURSIVE lstrip(_, _)
\* str.lstrip(chars): drop every leading character that is in chars
lstrip(s, chars) ==
    IF s # <<>> /\ Head(s) \in chars THEN lstrip(Tail(s), chars) ELSE s

RECURSIVE rstrip(_, _)
\* str.rstrip(chars): drop every trailing character that is in chars
rstrip(s, chars) ==
    IF s # <<>> /\ s[Len(s)] \in chars
    THEN rstrip(SubSeq(s, 1, Len(s) - 1), chars) ELSE s

\* str.startswith
startswith(s, p) == Len(p) <= Len(s) /\ SubSeq(s, 1, Len(p)) = p

RECURSIVE TakeWord(_)
\* the maximal whitespace-free prefix of s
TakeWord(s) ==
    IF s = <<>> \/ Head(s) \in Whitespace THEN <<>>
    ELSE <<Head(s)>> \o TakeWord(Tail(s))

RECURSIVE split(_)
\* str.split() without arguments: the whitespace-separated tokens
split(s) ==
    LET t == lstrip(s, Whitespace) IN
    IF t = <<>> THEN <<>>
    ELSE LET w == TakeWord(t) IN
         <<w>> \o split(SubSeq(t, Len(w) + 1, Len(t)))

RECURSIVE join(_, _)
\* sep.join(tokens)
join(tokens, sep) ==
    IF tokens = <<>> THEN <<>>
    ELSE IF Len(tokens) = 1 THEN tokens[1]
    ELSE tokens[1] \o sep \o join(Tail(tokens), sep)

\* tokens[lo:hi] with Python's clamping, lo and hi 0-based
Slice(tokens, lo, hi) ==
    SubSeq(tokens, lo + 1, IF hi < Len(tokens) THEN hi ELSE Len(tokens))

RECURSIVE TakeDigits(_)
\* the leading digit run of s
TakeDigits(s) ==
    IF s # <<>> /\ isdigit(Head(s)) THEN <<Head(s)>> \o TakeDigits(Tail(s))
    ELSE <<>>

\* membership and first index in a sequence (list.__contains__, list.index)
InSeq(x, q) == \E i \in 1..Len(q) : q[i] = x
IndexOf(x, q) == CHOOSE i \in 1..Len(q) : q[i] = x /\ \A j \in 1..(i - 1) : q[j] # x

\* list.remove(x): delete the first occurrence of x
remove(q, x) ==
    LET i == IndexOf(x, q) IN SubSeq(q, 1, i - 1) \o SubSeq(q, i + 1, Len(q))

(***************************************************************************)
(* The command registry app["commands"] and the alias table app.aliases    *)
(* Each descriptor holds the keys run_command reads.                       *)
(***************************************************************************)
\* command names, as typed
nameNext == <<"n", "e", "x", "t">>
nameFormat == <<"f", "m">>
nameHidden == <<"h", "i", "d">>
nameSet == <<"s", "e", "t">>
nameSetWidth == <<"s", "e", "t", " ", "w">>
nameAlias == <<"a", "l">>
nameSearchNext == <<"s", "n">>
nameSearchPrev == <<"s", "p">>

\* The registry: a counted command without arguments, a command with two
\* positional and one optional argument, a hidden counted command, a
\* compound "set <key>" command with default arguments, alias, and the two
\* search moves.
commands ==
    (nameNext :> [positional_args |-> <<>>, optional_args |-> <<>>,
                  default_args |-> <<>>, is_hidden |-> FALSE,
                  supports_count |-> TRUE])
    @@ (nameFormat :> [positional_args |-> <<"old", "new">>,
                       optional_args |-> <<"sep">>,
                       default_args |-> << <<"D">> >>, is_hidden |-> FALSE,
                       supports_count |-> FALSE])
    @@ (nameHidden :> [positional_args |-> <<>>, optional_args |-> <<>>,
                       default_args |-> <<>>, is_hidden |-> TRUE,
                       supports_count |-> TRUE])
    @@ (nameSetWidth :> [positional_args |-> <<>>,
                         optional_args |-> <<"value">>,
                         default_args |-> << <<"N">>, <<"T">> >>,
                         is_hidden |-> FALSE, supports_count |-> FALSE])
    @@ (nameAlias :> [positional_args |-> <<"alias">>,
                      optional_args |-> <<"command">>,
                      default_args |-> <<>>, is_hidden |-> FALSE,
                      supports_count |-> FALSE])
    @@ (nameSearchNext :> [positional_args |-> <<>>, optional_args |-> <<>>,
                           default_args |-> <<>>, is_hidden |-> FALSE,
                           supports_count |-> TRUE])
    @@ (nameSearchPrev :> [positional_args |-> <<>>, optional_args |-> <<>>,
                           default_args |-> << <<"F">> >>, is_hidden |-> FALSE,
                           supports_count |-> TRUE])

\* KeyHandler.num_clear: forget the pending repeat count
num_clear(s) == [s EXCEPT !.num_str = <<>>]

\* Statusbar.message(message, style): one status message
message(s, m) == [s EXCEPT !.msgs = Append(@, m)]

\* an uncaught Python exception: the callback stops where it is
raise(s, exc) == [s EXCEPT !.crashed = exc]

\* CommandLine.alias(alias, *command)
alias(s, args) ==
    [s EXCEPT !.aliases =
        [k \in DOMAIN @ \cup {args[1]} |->
            IF k = args[1] THEN join(Tail(args), <<" ">>) ELSE @[k]]]

(***************************************************************************)
(* Session state read by the command line: app.paths, app.index,           *)
(* library.files, mark.marked and the cursor of each view                  *)
(***************************************************************************)
\* os.path.basename
RECURSIVE basename(_)
basename(p) ==
    IF ~InSeq("/", p) THEN p
    ELSE basename(SubSeq(p, IndexOf("/", p) + 1, Len(p)))

\* app["library"].files: the listing of the library's directory
files == << <<"q", ".", "j">>, <<"a", " ", "b">>, <<"Q", "q">> >>

\* app.get_pos(get_filename, force_widget): the position (0-based) in the
\* view that has the focus, or the file name at it
get_pos(s) ==
    IF s.last_focused = "lib" THEN s.lib_pos
    ELSE IF s.last_focused = "thu" THEN s.thu_pos
    ELSE s.index

get_pos_filename(s) ==
    IF s.last_focused = "lib"
    THEN (IF files = <<>> THEN <<>> ELSE files[s.lib_pos + 1])
    ELSE (IF s.paths = <<>> THEN <<>> ELSE s.paths[get_pos(s) + 1])

(***************************************************************************)
(* expand_filenames: the three re.sub calls, computed on characters        *)
(***************************************************************************)
Backslash == "\\"
AsciiLetters == {"a", "b", "c", "d", "e", "f", "g", "h", "i", "j", "k", "l",
                 "m", "n", "o", "p", "q", "r", "s", "t", "u", "v", "w", "x",
                 "y", "z", "A", "B", "C", "D", "E", "F", "G", "H", "I", "J",
                 "K", "L", "M", "N", "O", "P", "Q", "R", "S", "T", "U", "V",
                 "W", "X", "Y", "Z"}

RECURSIVE replace(_, _, _)
\* str.replace(old, new) for a one-character old
replace(str, old, new) ==
    IF str = <<>> THEN <<>>
    ELSE (IF Head(str) = old THEN new ELSE <<Head(str)>>)
         \o replace(Tail(str), old, new)

RECURSIVE expand_template(_, _)
\* The replacement template of re.sub for a pattern with one group, the
\* group holding g1: "\\" gives one backslash, "\1" the group, a backslash
\* before another digit or an ASCII letter or at the end is an re.error
\* (the result then is <<"error">>, no character of a text), a backslash
\* before any other character is kept.
expand_template(repl, g1) ==
    IF repl = <<>> THEN <<>>
    ELSE IF Head(repl) # Backslash
    THEN LET rest == expand_template(Tail(repl), g1) IN
         IF rest = <<"error">> THEN rest ELSE <<Head(repl)>> \o rest
    ELSE IF Len(repl) = 1 THEN <<"error">>
    ELSE LET c == repl[2]
             rest == expand_template(SubSeq(repl, 3, Len(repl)), g1)
         IN IF rest = <<"error">> THEN rest
            ELSE IF c = Backslash THEN <<Backslash>> \o rest
            ELSE IF c = "1" THEN g1 \o rest
            ELSE IF c \in Digits \cup AsciiLetters THEN <<"error">>
            ELSE <<Backslash, c>> \o rest

RECURSIVE sub_unescaped(_, _, _, _)
\* re.sub(r'(?<!\\)(c)', out, cmd): every c not preceded by a backslash is
\* replaced by out; i is the position looked at
sub_unescaped(cmd, c, out, i) ==
    IF i > Len(cmd) THEN <<>>
    ELSE (IF cmd[i] = c /\ (i = 1 \/ cmd[i - 1] # Backslash)
          THEN out ELSE <<cmd[i]>>)
         \o sub_unescaped(cmd, c, out, i + 1)

RECURSIVE sub_backslash(_, _)
\* re.sub(r'(\\)(?!\\)', "", cmd): every backslash not followed by a
\* backslash is removed
sub_backslash(cmd, i) ==
    IF i > Len(cmd) THEN <<>>
    ELSE (IF cmd[i] = Backslash /\ (i = Len(cmd) \/ cmd[i + 1] # Backslash)
          THEN <<>> ELSE <<cmd[i]>>)
         \o sub_backslash(cmd, i + 1)

\* the list % and * operate on
filelist_of(s) ==
    IF s.marked # <<>> THEN s.marked
    ELSE IF s.last_focused = "lib" THEN files
    ELSE IF s.last_focused \in {"thu", "im"} THEN s.paths
    ELSE <<>>

\* CommandLine.expand_filenames(cmd); <<"error">> when re.sub raises
expand_filenames(s, cmd) ==
    LET filelist == filelist_of(s)
        escape == <<Backslash, Backslash, Backslash, Backslash, " ">>
        fil == replace(get_pos_filename(s), " ", escape)
        escaped == [i \in 1..Len(filelist) |-> replace(filelist[i], " ", escape)]
        one == expand_template(fil, <<"%">>)
        all == expand_template(join(escaped, <<" ">>), <<"*">>)
        cmd1 == sub_unescaped(Tail1(cmd), "%", one, 1)
        cmd2 == sub_unescaped(cmd1, "*", all, 1)
    IN IF filelist = <<>> THEN cmd
       ELSE IF one = <<"error">> \/ all = <<"error">> THEN <<"error">>
       ELSE sub_backslash(cmd2, 1)

(***************************************************************************)
(* The repeat count: KeyHandler.num_str as decimal text                    *)
(***************************************************************************)
DigitSeq == <<"0", "1", "2", "3", "4", "5", "6", "7", "8", "9">>

RECURSIVE str(_)
\* str(n) for n >= 0
str(n) ==
    IF n < 10 THEN <<DigitSeq[n + 1]>>
    ELSE str(n \div 10) \o <<DigitSeq[(n % 10) + 1]>>

RECURSIVE int(_)
\* int(text) for a text of digits
int(t) ==
    IF t = <<>> THEN 0
    ELSE 10 * int(SubSeq(t, 1, Len(t) - 1)) + (IndexOf(t[Len(t)], DigitSeq) - 1)

\* the value KeyHandler.num_receive(number) returns; it also clears num_str
num_receive(s, number) == IF s.num_str # <<>> THEN int(s.num_str) ELSE number

(***************************************************************************)
(* Image.move_pos and Image.move_index (vimiv/image.py)                    *)
(***************************************************************************)
\* Image.check_for_edit(force): TRUE when the move is refused
check_for_edit(s, force) == ~force /\ s.edited

\* random.shuffle(paths) when the generator gives the order rand: position i
\* of the result holds the entry that was at position rand[i]
shuffled(q, rand) == [i \in 1..Len(q) |-> q[rand[i]]]

\* Thumbnail.move_to_pos(pos)
move_to_pos(s, posn) ==
    IF posn < 0 \/ posn >= Len(s.paths)
    THEN message(s, [kind |-> "UnsupportedIndex", name |-> <<>>, args |-> <<>>,
                     keyname |-> <<>>, style |-> "warning"])
    ELSE [s EXCEPT !.thu_pos = posn]

RECURSIVE move_index(_, _, _, _, _)
RECURSIVE load_image(_)
RECURSIVE move_pos(_, _)

\* Image.move_index(forward, key, delta, force)
move_index(s, forward, key, delta, force) ==
    IF s.paths = <<>> \/ s.last_focused = "thu" THEN s
    ELSE IF check_for_edit(s, force)
    THEN message(s, [kind |-> "ImageEdited", name |-> <<>>, args |-> <<>>,
                     keyname |-> <<>>, style |-> "warning"])
    ELSE LET by_key == IF key THEN delta * num_receive(s, 1) ELSE delta
             d == IF forward THEN by_key ELSE 0 - by_key
             t == IF key THEN num_clear(s) ELSE s
             u == [t EXCEPT !.edited = IF force THEN FALSE ELSE @,
                            !.index = (t.index + d) % Len(t.paths)]
         IN load_image(IF u.shuffle /\ u.index = 0 /\ d > 0
                       THEN [u EXCEPT !.paths = shuffled(@, u.rand)]
                       ELSE u)

\* Image.load_image(): a file that cannot be read is taken from the list
load_image(s) ==
    IF s.index + 1 \notin DOMAIN s.paths THEN raise(s, "IndexError")
    ELSE LET path == s.paths[s.index + 1] IN
         IF path \in s.gone
         THEN message(move_pos([s EXCEPT !.paths = remove(@, path)], FALSE),
                      [kind |-> "FileNotAccessible", name |-> <<>>,
                       args |-> <<>>, keyname |-> <<>>, style |-> "error"])
         ELSE s

\* Image.move_pos(forward, force=False)
move_pos(s, forward) ==
    IF check_for_edit(s, FALSE)
    THEN message(s, [kind |-> "ImageEdited", name |-> <<>>, args |-> <<>>,
                     keyname |-> <<>>, style |-> "warning"])
    ELSE LET max_pos == Len(s.paths)
             current == s.index
             posn == IF forward THEN num_receive(s, max_pos)
                     ELSE num_receive(s, 1)
             t == num_clear(s)
         IN IF posn < 0 \/ posn > max_pos
            THEN message(t, [kind |-> "UnsupportedIndex", name |-> <<>>,
                             args |-> <<>>, keyname |-> <<>>,
                             style |-> "warning"])
            ELSE IF t.last_focused = "thu"
            THEN move_to_pos(t, posn - 1)
            ELSE move_index(t, TRUE, FALSE, posn - current - 1, FALSE)

(***************************************************************************)
(* Search                                                                  *)
(***************************************************************************)
\* str.lower on one character, for the letters file names use
lower1(c) ==
    IF c = "Q" THEN "q" ELSE IF c = "A" THEN "a" ELSE IF c = "J" THEN "j"
    ELSE IF c = "B" THEN "b" ELSE c

lower(t) == [i \in 1..Len(t) |-> lower1(t[i])]

\* needle in hay, for texts
contains(hay, needle) ==
    \E i \in 0..(Len(hay) - Len(needle)) :
        SubSeq(hay, i + 1, i + Len(needle)) = needle

RECURSIVE bisect(_, _, _, _, _)
\* bisect_left (right = FALSE) and bisect_right (right = TRUE) of the
\* standard library: the binary search between lo and hi, 0-based
bisect(a, x, lo, hi, right) ==
    IF lo >= hi THEN lo
    ELSE LET mid == (lo + hi) \div 2 IN
         IF (IF right THEN ~(x < a[mid + 1]) ELSE a[mid + 1] < x)
         THEN bisect(a, x, mid + 1, hi, right)
         ELSE bisect(a, x, lo, mid, right)

bisect_left(a, x) == bisect(a, x, 0, Len(a), FALSE)
bisect_right(a, x) == bisect(a, x, 0, Len(a), TRUE)

\* CommandLine.file_select(position, incsearch)
file_select(s, position, incsearch) ==
    IF s.last_focused = "lib"
    THEN LET t == [s EXCEPT !.lib_pos = position] IN
         IF Len(s.search_positions) = 1 /\ ~s.incsearch
         THEN [t EXCEPT !.selected = Append(@, position)] ELSE t
    ELSE IF s.last_focused = "im"
    THEN move_pos([s EXCEPT !.num_str = str(position + 1)], TRUE)
    ELSE IF s.last_focused = "thu"
    THEN move_to_pos(s, position)
    ELSE s

\* CommandLine.search_move_internal(incsearch)
search_move_internal(s, incsearch) ==
    LET posn == get_pos(s)
        idx == bisect_left(s.search_positions, posn)
        next_pos == s.search_positions[(idx % Len(s.search_positions)) + 1]
    IN file_select(s, next_pos, incsearch)

\* the list CommandLine.search looks through
search_list(s) ==
    IF s.last_focused = "lib" THEN files
    ELSE [i \in 1..Len(s.paths) |-> basename(s.paths[i])]

\* CommandLine.search(searchstr, incsearch)
search(s, searchstr, incsearch) ==
    LET names == search_list(s)
        hit(i) == \/ contains(names[i], searchstr)
                  \/ ~s.search_case /\ contains(lower(names[i]), lower(searchstr))
        hits == SelectSeq([i \in 1..Len(names) |-> i], hit)
        t == [s EXCEPT !.search_positions =
                 [k \in 1..Len(hits) |-> IndexOf(names[hits[k]], names) - 1],
               !.search_view = IF hits = <<>> THEN "" ELSE s.last_focused,
               !.searched = Append(@, searchstr)]
    IN IF t.search_positions # <<>> THEN search_move_internal(t, incsearch)
       ELSE IF incsearch THEN t
       ELSE message(t, [kind |-> "NoMatchingFile", name |-> <<>>,
                        args |-> <<>>, keyname |-> <<>>, style |-> "info"])

\* search_move with bisect_left where it moves forward
search_move_lower_bound(s, forward) ==
    IF s.search_positions = <<>>
    THEN message(s, [kind |-> "NoSearchResults", name |-> <<>>, args |-> <<>>,
                     keyname |-> <<>>, style |-> "warning"])
    ELSE LET add_on == num_receive(s, 1) - 1
             t == num_clear(s)
             posn == get_pos(t)
             n == Len(t.search_positions)
             idx == IF forward
                    THEN bisect_left(t.search_positions, posn) + add_on
                    ELSE bisect_left(t.search_positions, posn) - 1 - add_on
         IN file_select(t, t.search_positions[(idx % n) + 1], FALSE)

\* CommandLine.search_move(forward)
search_move(s, forward) ==
    IF s.search_positions = <<>>
    THEN message(s, [kind |-> "NoSearchResults", name |-> <<>>, args |-> <<>>,
                     keyname |-> <<>>, style |-> "warning"])
    ELSE LET add_on == num_receive(s, 1) - 1
             t == num_clear(s)
             posn == get_pos(t)
             n == Len(t.search_positions)
             idx == IF forward
                    THEN bisect_right(t.search_positions, posn) + add_on
                    ELSE bisect_left(t.search_positions, posn) - 1 - add_on
         IN file_select(t, t.search_positions[(idx % n) + 1], FALSE)

(***************************************************************************)
(* Dispatch of internal commands                                           *)
(***************************************************************************)
\* cmd_dict["function"](*args): the handler is called once with args; the
\* call records the repeat count it finds.  alias and search_move are the
\* handlers this file defines; the other handlers live in other components.
call(s, name_func, args) ==
    LET t == [s EXCEPT !.invoked =
                 Append(@, [name |-> name_func, args |-> args,
                            num_str |-> s.num_str])]
    IN IF name_func = nameAlias THEN alias(t, args)
       ELSE IF name_func = nameSearchNext THEN search_move(t, TRUE)
       ELSE IF name_func = nameSearchPrev THEN search_move(t, FALSE)
       ELSE t

\* name_func of run_command: the lookup key, the first token or, for a
\* command that starts with "set ", the first two tokens
name_func(cmd) ==
    IF startswith(cmd, nameSet \o <<" ">>)
    THEN join(Slice(split(cmd), 0, 2), <<" ">>)
    ELSE split(cmd)[1]

\* conf_args of run_command: the tokens after the lookup key
conf_args(cmd) ==
    IF startswith(cmd, nameSet \o <<" ">>)
    THEN Slice(split(cmd), 2, Len(split(cmd)))
    ELSE Tail(split(cmd))

\* hidden_call with the test of keyname inverted
hidden_call_inverted(keyname, cmd_dict) == keyname # <<>> /\ cmd_dict.is_hidden

\* not keyname and cmd_dict["is_hidden"]
hidden_call(keyname, cmd_dict) == keyname = <<>> /\ cmd_dict.is_hidden

\* len(conf_args) < len(cmd_dict["positional_args"])
missing_args(args, cmd_dict) == Len(args) < Len(cmd_dict.positional_args)

\* too_many_args with the limit off by one
too_many_args_off_by_one(args, cmd_dict) ==
    Len(args) > Len(cmd_dict.positional_args) + Len(cmd_dict.optional_args) + 1

\* len(conf_args) > len(positional_args) + len(optional_args)
too_many_args(args, cmd_dict) ==
    Len(args) > Len(cmd_dict.positional_args) + Len(cmd_dict.optional_args)

\* handler_args with the supplied tokens put first
handler_args_swapped(cmd_dict, args) == args \o cmd_dict.default_args

\* args = cmd_dict["default_args"] + conf_args
handler_args(cmd_dict, args) == cmd_dict.default_args \o args

\* CommandLine.run_command(cmd, keyname): keyname is <<>> for None
run_command(s0, cmd, keyname) ==
    LET s == [s0 EXCEPT !.dispatched =
                 Append(@, [cmd |-> cmd, keyname |-> keyname,
                            num_str |-> s0.num_str])]
    IN
    IF ~startswith(cmd, nameSet \o <<" ">>) /\ split(cmd) = <<>>
    THEN raise(s, "IndexError")
    ELSE IF name_func(cmd) \in DOMAIN commands THEN
        LET cmd_dict == commands[name_func(cmd)] IN
        IF hidden_call(keyname, cmd_dict)
        THEN message(s, [kind |-> "HiddenCommand", name |-> name_func(cmd),
                         args |-> <<>>, keyname |-> <<>>, style |-> "error"])
        ELSE IF missing_args(conf_args(cmd), cmd_dict)
        THEN message(s, [kind |-> "MissingPositional",
                         name |-> name_func(cmd),
                         args |-> cmd_dict.positional_args,
                         keyname |-> <<>>, style |-> "error"])
        ELSE IF too_many_args(conf_args(cmd), cmd_dict)
        THEN message(s, [kind |-> "TooManyArguments", name |-> name_func(cmd),
                         args |-> <<>>, keyname |-> <<>>, style |-> "error"])
        ELSE LET t == IF ~cmd_dict.supports_count THEN num_clear(s) ELSE s
             IN call(t, name_func(cmd), handler_args(cmd_dict, conf_args(cmd)))
    ELSE message(s, [kind |-> "NoCommand", name |-> name_func(cmd),
                     args |-> <<>>, keyname |-> keyname, style |-> "error"])

(***************************************************************************)
(* The file system the path and pipe commands look at                      *)
(***************************************************************************)
pathHere == <<".">>
pathImage == <<".", "/", "q", ".", "j">>
pathText == <<".", "/", "t">>
cwd == <<"/", "d">>

\* os.path.isdir, os.path.isfile, fileactions.is_image
isdir(p) == p \in {pathHere, <<"~">>, <<".", "/", "s">>, <<"s">>}
is_image(p) ==
    p \in {pathImage, <<".", "/", "a", " ", " ", "b">>,
           <<".", "/", "s", "/", "i">>, <<"s", "/", "i">>}
isfile(p) == is_image(p) \/ p = pathText

\* listdir_wrapper(directory, show_hidden): the sorted names in directory.
\* The working directory holds the images "a  b" (two spaces in its name)
\* and q.j, the directory s with the image i and the text file t; ~/T is
\* the directory of the tags and ~/D that of the trash.
listdir(directory) ==
    IF directory = pathHere
    THEN << <<"a", " ", " ", "b">>, <<"q", ".", "j">>, <<"s">>, <<"t">> >>
    ELSE IF directory \in {<<".", "/", "s">>, <<"s">>} THEN << <<"i">> >>
    ELSE IF directory = <<"~", "/", "T">> THEN << <<"g">> >>
    ELSE IF directory = <<"~", "/", "D">> THEN << <<"u", ".", "j">> >>
    ELSE <<>>

\* fileactions.populate(args): the images among args, first one active
populate(args) == SelectSeq(args, is_image)

RECURSIVE split_on(_, _)
\* str.split(sep) for a one-character sep: every piece, empty ones too
split_on(t, sep) ==
    IF ~InSeq(sep, t) THEN <<t>>
    ELSE LET i == IndexOf(sep, t) IN
         <<SubSeq(t, 1, i - 1)>> \o split_on(SubSeq(t, i + 1, Len(t)), sep)

(***************************************************************************)
(* External commands and the pipe                                          *)
(***************************************************************************)
\* the smallest process number not in use
fresh(s) ==
    CHOOSE p \in 1..(Cardinality(s.threads) + Len(s.running_processes) + 1) :
        /\ p \notin {t.p : t \in s.threads}
        /\ ~InSeq(p, s.running_processes)
        /\ \A q \in 1..(p - 1) :
              q \in {t.p : t \in s.threads} \/ InSeq(q, s.running_processes)

\* CommandLine.run_external_command(cmd)
run_external_command(s, cmd) ==
    LET expanded == expand_filenames(s, cmd) IN
    IF expanded = <<"error">> THEN raise(s, "re.error")
    ELSE IF expanded = <<>> THEN raise(s, "IndexError")
    ELSE LET from_pipe == expanded[Len(expanded)] = "|"
             shell == IF from_pipe THEN rstrip(expanded, {"|"}) ELSE expanded
             p == fresh(s)
         IN [s EXCEPT !.running_processes = Append(@, p),
                      !.threads = @ \cup {[p |-> p, cmd |-> shell,
                                           from_pipe |-> from_pipe]},
                      !.popen = Append(@, [cmd |-> shell, stdout |-> from_pipe])]

RECURSIVE run_lines(_, _)
\* for cmd in pipe_input: self.run_command(cmd)
run_lines(s, lines) ==
    IF lines = <<>> \/ s.crashed # "no" THEN s
    ELSE run_lines(run_command(s, Head(lines), <<>>), Tail(lines))

\* CommandLine.pipe(pipe_input)
pipe(s, pipe_input) ==
    IF pipe_input = <<>>
    THEN message(s, [kind |-> "NoInputFromPipe", name |-> <<>>, args |-> <<>>,
                     keyname |-> <<>>, style |-> "info"])
    ELSE LET pieces == split_on(pipe_input, "\n")
             lines == SubSeq(pieces, 1, Len(pieces) - 1)
         IN IF lines = <<>> THEN raise(s, "IndexError")
            ELSE LET startout == lines[1] IN
            IF isdir(startout)
            THEN [s EXCEPT !.lib_pos = 0, !.moved_up = Append(@, startout)]
            ELSE IF isfile(startout)
            THEN LET old_pos == IF s.paths # <<>>
                                THEN <<s.paths[s.index + 1]>> ELSE <<>>
                     found == populate(lines)
                 IN IF found # <<>>
                    THEN load_image([s EXCEPT !.paths = found, !.index = 0,
                                              !.thu_pos = 0])
                    ELSE IF old_pos # <<>>
                    THEN message([s EXCEPT !.paths = populate(old_pos),
                                           !.index = 0, !.thu_pos = 0],
                                 [kind |-> "NoImageFound", name |-> <<>>,
                                  args |-> <<>>, keyname |-> <<>>,
                                  style |-> "info"])
                    ELSE [s EXCEPT !.paths = <<>>, !.index = 0, !.thu_pos = 0]
            ELSE run_lines(s, lines)

\* CommandLine.run_path(path)
run_path(s, path) ==
    IF isdir(path)
    THEN [s EXCEPT !.lib_pos = 0, !.moved_up = Append(@, path),
                   !.last_focused = "lib"]
    ELSE IF isfile(path)
    THEN LET t0 == load_image([s EXCEPT !.paths = populate(<<path>>),
                                        !.index = 0, !.thu_pos = 0])
             t == [t0 EXCEPT !.moved_up = Append(@, pathHere)]
         IN IF t0.crashed # "no" THEN t0
            ELSE IF s.last_focused # "lib" THEN t
            ELSE IF ~InSeq(basename(path), files) THEN raise(t, "ValueError")
            ELSE [t EXCEPT !.lib_pos = IndexOf(basename(path), files) - 1]
    ELSE message(s, [kind |-> "NotAValidPath", name |-> <<>>, args |-> <<>>,
                     keyname |-> <<>>, style |-> "error"])

(***************************************************************************)
(* Completion (vimiv/completions.py): the parts the command line drives    *)
(***************************************************************************)
\* the characters of the texts, in code point order
CharOrder == <<"\n", " ", "!", "%", "*", ".", "/", "0", "1", "2", "3", "4",
               "5", "6", "7", "8", "9", ":", "A", "B", "D", "F", "J", "N",
               "Q", "T", Backslash, "a", "b", "c", "d", "e", "f", "g", "h",
               "i", "j", "k", "l", "m", "n", "o", "p", "q", "r", "s", "t",
               "u", "w", "x", "y", "z", "|", "~">>

ord(c) == IndexOf(c, CharOrder)

RECURSIVE less(_, _)
\* a < b for texts
less(a, b) ==
    IF b = <<>> THEN FALSE
    ELSE IF a = <<>> THEN TRUE
    ELSE IF Head(a) # Head(b) THEN ord(Head(a)) < ord(Head(b))
    ELSE less(Tail(a), Tail(b))

RECURSIVE sorted(_)
\* sorted(set of texts)
sorted(S) ==
    IF S = {} THEN <<>>
    ELSE LET m == CHOOSE x \in S : \A y \in S \ {x} : less(x, y)
         IN <<m>> \o sorted(S \ {m})

\* the alias table the session starts with
aliases0 ==
    (<<"q">> :> nameNext) @@ (<<"k">> :> nameHidden) @@ (<<"c">> :> <<"q">>)
    @@ (<<"o", "p", "e", "n">> :> nameNext)
    @@ (<<"o", "r", "i", "g", "i", "n">> :> nameNext)
    @@ (<<"x">> :> <<"!", "l">>)

\* Completion.generate_commandlist: the "internal" liststore
commandlist ==
    sorted({c \in DOMAIN commands : ~commands[c].is_hidden}
           \cup DOMAIN aliases0)

\* get_comp_type without the "." of the paths
get_comp_type_no_dot(text) ==
    IF text # <<>> /\ text[1] # ":" THEN "search"
    ELSE LET command == lstrip(text, {":"}) IN
         IF command = <<>> THEN "internal"
         ELSE IF command[1] = "!" THEN "external"
         ELSE IF command[1] \in {"/", "~"} THEN "path"
         ELSE IF \E w \in {<<"w", "r", "i", "t", "e">>,
                           <<"r", "e", "m", "o", "v", "e">>,
                           <<"l", "o", "a", "d">>} :
                    startswith(command, <<"t", "a", "g", "_">> \o w \o <<" ">>)
         THEN "tag"
         ELSE IF startswith(command, <<"u", "n", "d", "e", "l", "e", "t", "e">>)
         THEN "trash"
         ELSE "internal"

\* Completion.get_comp_type for the entry text
get_comp_type(text) ==
    IF text # <<>> /\ text[1] # ":" THEN "search"
    ELSE LET command == lstrip(text, {":"}) IN
         IF command = <<>> THEN "internal"
         ELSE IF command[1] = "!" THEN "external"
         ELSE IF command[1] \in {"/", ".", "~"} THEN "path"
         ELSE IF \E w \in {<<"w", "r", "i", "t", "e">>,
                           <<"r", "e", "m", "o", "v", "e">>,
                           <<"l", "o", "a", "d">>} :
                    startswith(command, <<"t", "a", "g", "_">> \o w \o <<" ">>)
         THEN "tag"
         ELSE IF startswith(command, <<"u", "n", "d", "e", "l", "e", "t", "e">>)
         THEN "trash"
         ELSE "internal"

\* os.path.dirname(path): path up to its last "/", without the slashes at
\* the end unless there is nothing else
dirname(path) ==
    LET slashes == {i \in 1..Len(path) : path[i] = "/"}
        head == SubSeq(path, 1, CHOOSE i \in slashes : \A k \in slashes : k <= i)
    IN IF slashes = {} THEN <<>>
       ELSE IF rstrip(head, {"/"}) = <<>> THEN head
       ELSE rstrip(head, {"/"})

\* the rows complete_path appends for the files of directory: os.path.join
\* of directory and name, with "/" after a directory; other files only when
\* they are images
path_rows(directory) ==
    LET joined(fil) == IF directory[Len(directory)] = "/" THEN directory \o fil
                       ELSE directory \o <<"/">> \o fil
        row(p) == IF isdir(p) THEN p \o <<"/">> ELSE p
        listed(fil) == isdir(joined(fil)) \/ is_image(joined(fil))
        rows(names) == [i \in 1..Len(names) |-> row(joined(names[i]))]
    IN IF directory = <<"/", "d", "e", "v">> THEN <<>>
       ELSE rows(SelectSeq(listdir(directory), listed))

\* Completion.complete_path(path): the rows of liststores["path"][0]
complete_path(path) ==
    LET existing(directory) == IF ~isdir(directory) THEN pathHere
                               ELSE directory
    IN path_rows(existing(IF dirname(path) # <<>> THEN dirname(path)
                          ELSE path))

\* Completion.complete_external(command): the rows of
\* liststores["external"][0]
complete_external(command) ==
    LET shown(row) == IF startswith(row, <<".", "/">>)
                      THEN SubSeq(row, 3, Len(row)) ELSE row
        prepend(before, rows) ==
            [i \in 1..Len(rows) |-> <<"!">> \o before \o shown(rows[i])]
        with_path(args) ==
            IF startswith(args[Len(args)], <<"-">>) THEN <<>>
            ELSE prepend(join(SubSeq(args, 1, Len(args) - 1), <<" ">>)
                            \o <<" ">>,
                         complete_path(args[Len(args)]))
        rows(cmd, spaces) ==
            IF spaces = 0 THEN <<>>
            ELSE IF Len(split(cmd)) > spaces THEN with_path(split(cmd))
            ELSE prepend(cmd, complete_path(<<".", "/">>))
        counted(cmd) ==
            rows(cmd, Cardinality({i \in 1..Len(cmd) : cmd[i] = " "}))
    IN counted(lstrip(lstrip(command, {"!"}), {" "}))

\* the rows of liststores[comp_type][0] once refilter has filled them for
\* command: complete_path, complete_tag, complete_external, complete_trash
\* and the list of generate_commandlist
liststore(comp_type, command) ==
    IF comp_type = "internal" THEN commandlist
    ELSE IF comp_type = "path" THEN complete_path(command)
    ELSE IF comp_type = "external" THEN complete_external(command)
    ELSE IF comp_type = "tag"
    THEN LET tags == listdir(<<"~", "/", "T">>) IN
         [i \in 1..Len(tags) |-> split(command)[1] \o <<" ">> \o tags[i]]
    ELSE IF comp_type = "trash"
    THEN LET trash == listdir(<<"~", "/", "D">>) IN
         [i \in 1..Len(trash) |->
             <<"u", "n", "d", "e", "l", "e", "t", "e", " ">> \o trash[i]]
    ELSE <<>>

\* completion_filter without the removal of the numeric prefix
visible_keeps_digits(text) ==
    LET command == lstrip(text, {":"})
        keep(row) == startswith(row, command)
    IN SelectSeq(liststore(get_comp_type(text), command), keep)

\* the rows completion_filter lets through for the entry text
visible(text) ==
    LET command == lstrip(lstrip(text, {":"}), Digits)
        keep(row) == startswith(row, command)
    IN SelectSeq(liststore(get_comp_type(text), lstrip(text, {":"})), keep)

\* Completion.reset
reset(s) == [s EXCEPT !.tab_position = 0, !.tab_presses = 0]

RECURSIVE collapse(_)
\* re.sub(r' +', " ", text)
collapse(t) ==
    IF t = <<>> THEN <<>>
    ELSE IF Head(t) = " " THEN <<" ">> \o collapse(lstrip(t, {" "}))
    ELSE <<Head(t)>> \o collapse(Tail(t))

\* CommandLine.leave(reset_search=False)
leave(s) == reset(s)

\* CommandLine.check_close(entry)
check_close(s) ==
    LET t == [s EXCEPT !.sub_history = <<>>, !.pos = 0] IN
    IF t.entry = <<>> \/ t.entry[1] \notin {":", "/"} THEN leave(t) ELSE t

\* CommandLine.incremental_search(entry)
incremental_search(s) ==
    IF s.last_focused \notin {"lib", "thu"} \/ Len(s.entry) < 2 THEN s
    ELSE IF s.entry[1] = "/" THEN search(s, lstrip(s.entry, {"/"}), TRUE)
    ELSE s

\* refilter without the reset of the tab cycle
refilter_keeps_tab(s) ==
    LET comp_type == get_comp_type(s.entry)
        rows == liststore(comp_type, lstrip(s.entry, {":"}))
    IN [s EXCEPT !.prefixed_digits = IF rows = <<>> THEN @
                                     ELSE TakeDigits(lstrip(s.entry, {":"})),
                 !.treeview = [model |-> comp_type, rows |-> visible(s.entry)]]

\* Completion.refilter(entry) after its own set_text: the treeview shows
\* the filtered liststore of the type, and completion_filter, which runs for
\* every row of the liststore, sets prefixed_digits
refilter(s) ==
    LET comp_type == get_comp_type(s.entry)
        rows == liststore(comp_type, lstrip(s.entry, {":"}))
    IN reset([s EXCEPT !.prefixed_digits =
                          IF rows = <<>> THEN @
                          ELSE TakeDigits(lstrip(s.entry, {":"})),
                       !.treeview = [model |-> comp_type,
                                     rows |-> visible(s.entry)]])

\* check_close as a handler of "changed": it runs while it is connected
on_changed(s) == IF s.connected THEN check_close(s) ELSE s

\* the handlers of the entry's "changed" signal, for a text without a run
\* of spaces: check_close, incremental_search, refilter
changed1(s, text) ==
    LET a == on_changed([s EXCEPT !.entry = text])
        b == IF a.incsearch THEN incremental_search(a) ELSE a
    IN refilter(b)

\* entry.set_text(text): nothing when the text is the same; otherwise the
\* handlers run, and refilter's set_text runs them again on the collapsed
\* text before it goes on
set_text(s, text) ==
    IF text = s.entry THEN s
    ELSE IF collapse(text) = text THEN changed1(s, text)
    ELSE LET a == on_changed([s EXCEPT !.entry = text])
             b == IF a.incsearch THEN incremental_search(a) ELSE a
         IN refilter(changed1(b, collapse(text)))

\* Completion.activate(None, None, None): the row at tab_position
activate(s) ==
    LET rows == s.treeview.rows IN
    IF s.tab_position + 1 > Len(rows) THEN raise(s, "IndexError")
    ELSE set_text(s, <<":">> \o s.prefixed_digits \o rows[s.tab_position + 1])

\* the whole first row taken as the best match
common_prefix_whole_first(first, last) == first

\* the characters best_match gets in the loop over first: those equal in
\* first and last up to the first difference
common_prefix(first, last) ==
    LET n == CHOOSE n \in 0..Len(first) :
                /\ \A i \in 1..n : i <= Len(last) /\ first[i] = last[i]
                /\ n < Len(first) => (n + 1 > Len(last)
                                      \/ first[n + 1] # last[n + 1])
    IN SubSeq(first, 1, n)

\* the position without the remainder: it stops at the ends of the list
next_position_clamped(s, inverse, maximum) ==
    LET p == IF s.tab_presses = 0 THEN (IF inverse THEN -1 ELSE s.tab_position)
             ELSE IF inverse THEN s.tab_position - 1
             ELSE s.tab_position + 1
    IN IF p < 0 THEN 0 ELSE IF p >= maximum THEN maximum - 1 ELSE p

\* the position complete moves to: the last row on a first Shift+Tab, one
\* row back or forth on a later press, modulo the number of rows
next_position(s, inverse, maximum) ==
    LET p == IF s.tab_presses = 0 THEN (IF inverse THEN -1 ELSE s.tab_position)
             ELSE IF inverse THEN s.tab_position - 1
             ELSE s.tab_position + 1
    IN p % maximum

\* complete writing the row it moves to into the entry
complete_enters_candidate(s, inverse) ==
    LET rows == s.treeview.rows
        maximum == Len(rows)
        common == common_prefix(rows[1], rows[maximum])
        best_match == <<":">> \o s.prefixed_digits \o common
    IN IF maximum = 0 THEN s
       ELSE IF s.tab_presses = 0 /\ best_match # s.entry
       THEN set_text(s, best_match)
       ELSE LET p == next_position(s, inverse, maximum) IN
            [s EXCEPT !.tab_presses = @ + 1, !.tab_position = p,
                      !.entry = <<":">> \o s.prefixed_digits \o rows[p + 1]]

\* Completion.complete(inverse); last[i] past the end of last raises
\* IndexError
complete(s, inverse) ==
    LET rows == s.treeview.rows
        maximum == Len(rows)
        first == rows[1]
        last == rows[maximum]
        common == common_prefix(first, last)
        best_match == <<":">> \o s.prefixed_digits \o common
    IN IF maximum = 0 THEN s
       ELSE IF /\ s.tab_presses = 0
               /\ Len(common) < Len(first)
               /\ Len(common) + 1 > Len(last)
       THEN raise(s, "IndexError")
       ELSE IF s.tab_presses = 0 /\ best_match # s.entry
       THEN set_text(s, best_match)
       ELSE [s EXCEPT !.tab_presses = @ + 1,
                      !.tab_position = next_position(s, inverse, maximum)]

(***************************************************************************)
(* CommandLine.run and CommandLine.handler                                 *)
(***************************************************************************)
RECURSIVE take_count(_, _)
\* while cmd[0].isdigit(): num_str += cmd[0]; cmd = cmd[1:]
\* then run_command(cmd); cmd[0] of an empty cmd raises IndexError
take_count(s, cmd) ==
    IF cmd = <<>> THEN raise(s, "IndexError")
    ELSE IF isdigit(cmd[1])
    THEN take_count([s EXCEPT !.num_str = @ \o <<cmd[1]>>], Tail(cmd))
    ELSE run_command(s, cmd, <<>>)

\* route_of without the "~" of the path branch
route_of_no_tilde(cmd) ==
    IF cmd[1] = "!" THEN "external"
    ELSE IF cmd[1] = "." \/ cmd[1] = "/" THEN "path"
    ELSE "internal"

\* the branch run takes for a command without its leading colons
route_of(cmd) ==
    IF cmd[1] = "!" THEN "external"
    ELSE IF cmd[1] = "~" \/ cmd[1] = "." \/ cmd[1] = "/" THEN "path"
    ELSE "internal"

\* CommandLine.run(command)
run(s, command) ==
    IF command = <<>> THEN raise(s, "IndexError")
    ELSE IF command[1] = "/"
    THEN LET t == [s EXCEPT !.route = "search"] IN
         IF s.last_focused \notin {"lib", "thu"} \/ ~s.incsearch
         THEN search(t, lstrip(command, {"/"}), FALSE)
         ELSE IF Len(s.search_positions) = 1 /\ s.last_focused = "lib"
         THEN [t EXCEPT !.selected = Append(@, get_pos(s))]
         ELSE t
    ELSE LET cmd == lstrip(command, {":"}) IN
         IF cmd = <<>> THEN [s EXCEPT !.route = "empty"]
         ELSE IF route_of(cmd) = "external"
         THEN run_external_command([s EXCEPT !.route = "external"], cmd)
         ELSE IF route_of(cmd) = "path"
         THEN run_path([s EXCEPT !.route = "path"], cmd)
         ELSE take_count(num_clear([s EXCEPT !.route = "internal"]), cmd)

\* self.history: remove command if present, then insert it at the front
remember(history, command) ==
    <<command>> \o (IF InSeq(command, history) THEN remove(history, command)
                    ELSE history)

\* resolve with the expansion looked up in the alias table again
resolve_chained(s, text) ==
    IF Tail1(text) \in DOMAIN s.aliases
    THEN IF s.aliases[Tail1(text)] \in DOMAIN s.aliases
         THEN <<":">> \o s.aliases[s.aliases[Tail1(text)]]
         ELSE <<":">> \o s.aliases[Tail1(text)]
    ELSE text

\* the command CommandLine.handler runs for the entry text
resolve(s, text) ==
    IF Tail1(text) \in DOMAIN s.aliases
    THEN <<":">> \o s.aliases[Tail1(text)] ELSE text

\* CommandLine.handler(entry)
handler(s) ==
    IF s.tab_presses # 0 THEN reset(activate(s))
    ELSE LET command == resolve(s, s.entry)
             closed == set_text(s, <<>>)
             t == [closed EXCEPT !.history = remember(@, command), !.pos = 0]
         IN run(t, command)

RECURSIVE match_here(_, _), match_star(_, _, _)
\* re.match("^(" + pat + ")", text) for a pat of literal characters, "."
\* (any character) and "*" (the character before it, any number of times);
\* a pat with parentheses is decided by re_error
match_here(pat, text) ==
    IF pat = <<>> THEN TRUE
    ELSE IF Len(pat) >= 2 /\ pat[2] = "*"
    THEN match_star(pat[1], SubSeq(pat, 3, Len(pat)), text)
    ELSE /\ text # <<>>
         /\ pat[1] = "." \/ pat[1] = text[1]
         /\ match_here(Tail(pat), Tail(text))

match_star(c, pat, text) ==
    \/ match_here(pat, text)
    \/ /\ text # <<>>
       /\ c = "." \/ c = text[1]
       /\ match_star(c, pat, Tail(text))

\* "^(" + pat + ")" does not compile: its parentheses do not balance or a
\* "*" has nothing to repeat
re_error(pat) ==
    LET opened(i) == Cardinality({j \in 1..i : pat[j] = "("})
        closed(i) == Cardinality({j \in 1..i : pat[j] = ")"})
    IN \/ \E i \in 1..Len(pat) : closed(i) > opened(i)
       \/ opened(Len(pat)) # closed(Len(pat))
       \/ \E i \in 1..Len(pat) :
             pat[i] = "*" /\ (i = 1 \/ pat[i - 1] \in {"*", "("})

\* CommandLine.history_search(down): re.match raises on the first entry of
\* the history when the pattern does not compile
history_search(s, down) ==
    LET d == [s EXCEPT !.connected = FALSE]
        substring == d.entry
        matches(cmd) == match_here(substring, cmd)
    IN IF d.sub_history = <<>> /\ d.history # <<>> /\ re_error(substring)
       THEN raise([d EXCEPT !.sub_history = <<substring>>], "re.error")
       ELSE LET b == IF d.sub_history = <<>>
                     THEN [d EXCEPT !.sub_history =
                              <<substring>> \o SelectSeq(d.history, matches)]
                     ELSE d
                c == [b EXCEPT !.pos = (IF down THEN @ - 1 ELSE @ + 1)
                                       % Len(b.sub_history)]
                e == set_text(c, c.sub_history[c.pos + 1])
            IN [e EXCEPT !.connected = TRUE]

\* CommandLine.reset_search(leaving)
reset_search(s, leaving) ==
    [s EXCEPT !.search_positions = <<>>, !.search_view = ""]

\* focus without its call of reset_search
focus_keeps_search(s, view) ==
    set_text([s EXCEPT !.last_focused = view], <<":">>)

\* CommandLine.focus(text) with the view that has the focus
focus(s, view) ==
    LET t == refilter(set_text(s, <<":">>)) IN
    reset_search([t EXCEPT !.last_focused = view], FALSE)

\* another view takes the focus while the command line is closed: the
\* search state is cleared
switch_view(s, view) ==
    [s EXCEPT !.active = view, !.search_positions = <<>>, !.search_view = ""]

\* CommandLine.cmd_search()
cmd_search(s, view) == set_text(focus(s, view), <<"/">>)

\* thread_for_external asking for a reload only when the command names the
\* working directory
thread_for_external_cwd_only(s, th, returncode, out, err) ==
    LET c == [s EXCEPT !.communicate =
                 <<[returncode |-> returncode, out |-> out, err |-> err]>>]
        t == IF returncode # 0
             THEN message(c, [kind |-> "CommandExited", name |-> <<>>,
                              args |-> <<str(returncode), err>>,
                              keyname |-> <<>>, style |-> "error"])
             ELSE [c EXCEPT !.timeouts =
                      Append(@, [reload_path |-> contains(th.cmd, basename(cwd)),
                                 from_pipe |-> th.from_pipe, out |-> out])]
    IN [t EXCEPT !.threads = @ \ {th},
                 !.running_processes = SubSeq(@, 1, Len(@) - 1)]

\* thread_for_external without the pop of its last line
thread_for_external_no_pop(s, th, returncode, out, err) ==
    LET c == [s EXCEPT !.communicate =
                 <<[returncode |-> returncode, out |-> out, err |-> err]>>]
        t == IF returncode # 0
             THEN message(c, [kind |-> "CommandExited", name |-> <<>>,
                              args |-> <<str(returncode), err>>,
                              keyname |-> <<>>, style |-> "error"])
             ELSE [c EXCEPT !.timeouts =
                      Append(@, [reload_path |-> FALSE,
                                 from_pipe |-> th.from_pipe, out |-> out])]
    IN [t EXCEPT !.threads = @ \ {th}]

\* CommandLine.thread_for_external(cmd, p, from_pipe), the process having
\* exited with returncode and written out to its standard output and err to
\* its standard error
thread_for_external(s, th, returncode, out, err) ==
    LET c == [s EXCEPT !.communicate =
                 <<[returncode |-> returncode, out |-> out, err |-> err]>>]
        reload_path ==
            \/ contains(th.cmd, basename(cwd))
            \/ \E i \in 1..Len(c.paths) : contains(th.cmd, basename(c.paths[i]))
        t == IF returncode # 0
             THEN message(c, [kind |-> "CommandExited", name |-> <<>>,
                              args |-> <<str(returncode), err>>,
                              keyname |-> <<>>, style |-> "error"])
             ELSE [c EXCEPT !.timeouts =
                      Append(@, [reload_path |-> reload_path,
                                 from_pipe |-> th.from_pipe, out |-> out])]
    IN [t EXCEPT !.threads = @ \ {th},
                 !.running_processes = SubSeq(@, 1, Len(@) - 1)]

\* FileExtras.reload_changes(directory, reload_path, pipe, pipe_input), run
\* by the timer: it hands the output to CommandLine.pipe
reload_changes(s) ==
    LET job == Head(s.timeouts)
        t == [s EXCEPT !.timeouts = Tail(@)]
    IN IF job.from_pipe THEN pipe(t, job.out) ELSE t

\* TagHandler.load(tagname) (vimiv/tags.py), tagged_images being the lines
\* of the tag file
tag_load(s, tagname, tagged_images) ==
    LET t == [s EXCEPT !.paths = populate(tagged_images)] IN
    IF t.paths # <<>> THEN load_image(t)
    ELSE message(t, [kind |-> "NoValidImages", name |-> tagname,
                     args |-> <<>>, keyname |-> <<>>, style |-> "error"])

(***************************************************************************)
(* State                                                                   *)
(***************************************************************************)
\* entry .. prefixed_digits are the attributes of CommandLine, Completion,
\* KeyHandler and the application; treeview is the model of the completion's
\* treeview, the filtered liststore of a completion type, with the rows it
\* shows; connected tells whether check_close is
\* connected to the entry's "changed" signal, active is the view that has
\* the focus while the command line is closed, search_view the view whose
\* list search_positions index ("" when there are none), shuffle the
\* shuffle setting and gone the files that can no longer be read;
\* op .. dispatched
\* describe the last
\* operation: which one ran on what, the status messages it produced, the
\* handlers it called, the route run took, the exception that ended it, and
\* its calls of library.file_select, search, Popen, library.move_up and
\* run_command, and what p.communicate() returned to it.
VARIABLES
    entry,
    history,
    pos,
    sub_history,
    num_str,
    aliases,
    last_focused,
    search_positions,
    paths,
    index,
    lib_pos,
    thu_pos,
    marked,
    edited,
    shuffle,
    gone,
    search_case,
    incsearch,
    running_processes,
    threads,
    timeouts,
    tab_presses,
    tab_position,
    prefixed_digits,
    treeview,
    connected,
    active,
    search_view,
    op,
    arg,
    msgs,
    invoked,
    route,
    crashed,
    selected,
    searched,
    popen,
    moved_up,
    dispatched,
    communicate

vars == <<entry, history, pos, sub_history, num_str, aliases, last_focused, search_positions, paths, index, lib_pos, thu_pos, marked, edited, shuffle, gone, search_case, incsearch, running_processes, threads, timeouts, tab_presses, tab_position, prefixed_digits, treeview, connected, active, search_view, op, arg, msgs, invoked, route, crashed, selected, searched, popen, moved_up, dispatched, communicate>>

\* the state as one record, for the operators above; rand is the order the
\* next random.shuffle gives, which the step that shuffles takes as its input
Cur ==
    [entry |-> entry,
     history |-> history,
     pos |-> pos,
     sub_history |-> sub_history,
     num_str |-> num_str,
     aliases |-> aliases,
     last_focused |-> last_focused,
     search_positions |-> search_positions,
     paths |-> paths,
     index |-> index,
     lib_pos |-> lib_pos,
     thu_pos |-> thu_pos,
     marked |-> marked,
     edited |-> edited,
     shuffle |-> shuffle,
     gone |-> gone,
     search_case |-> search_case,
     incsearch |-> incsearch,
     running_processes |-> running_processes,
     threads |-> threads,
     timeouts |-> timeouts,
     tab_presses |-> tab_presses,
     tab_position |-> tab_position,
     prefixed_digits |-> prefixed_digits,
     treeview |-> treeview,
     connected |-> connected,
     active |-> active,
     search_view |-> search_view,
     op |-> op,
     arg |-> arg,
     msgs |-> msgs,
     invoked |-> invoked,
     route |-> route,
     crashed |-> crashed,
     selected |-> selected,
     searched |-> searched,
     popen |-> popen,
     moved_up |-> moved_up,
     dispatched |-> dispatched,
     communicate |-> communicate,
     rand |-> <<>>]

\* the next state is t
Set(t) ==
    /\ entry' = t.entry
    /\ history' = t.history
    /\ pos' = t.pos
    /\ sub_history' = t.sub_history
    /\ num_str' = t.num_str
    /\ aliases' = t.aliases
    /\ last_focused' = t.last_focused
    /\ search_positions' = t.search_positions
    /\ paths' = t.paths
    /\ index' = t.index
    /\ lib_pos' = t.lib_pos
    /\ thu_pos' = t.thu_pos
    /\ marked' = t.marked
    /\ edited' = t.edited
    /\ shuffle' = t.shuffle
    /\ gone' = t.gone
    /\ search_case' = t.search_case
    /\ incsearch' = t.incsearch
    /\ running_processes' = t.running_processes
    /\ threads' = t.threads
    /\ timeouts' = t.timeouts
    /\ tab_presses' = t.tab_presses
    /\ tab_position' = t.tab_position
    /\ prefixed_digits' = t.prefixed_digits
    /\ treeview' = t.treeview
    /\ connected' = t.connected
    /\ active' = t.active
    /\ search_view' = t.search_view
    /\ op' = t.op
    /\ arg' = t.arg
    /\ msgs' = t.msgs
    /\ invoked' = t.invoked
    /\ route' = t.route
    /\ crashed' = t.crashed
    /\ selected' = t.selected
    /\ searched' = t.searched
    /\ popen' = t.popen
    /\ moved_up' = t.moved_up
    /\ dispatched' = t.dispatched
    /\ communicate' = t.communicate

\* the state in which operation o starts on argument a
Begin(o, a) ==
    [Cur EXCEPT !.op = o, !.arg = a, !.msgs = <<>>, !.invoked = <<>>,
                !.route = "none", !.crashed = "no", !.selected = <<>>,
                !.searched = <<>>, !.popen = <<>>, !.moved_up = <<>>,
                !.dispatched = <<>>, !.communicate = <<>>]

(***************************************************************************)
(* Inputs                                                                  *)
(***************************************************************************)
\* the texts the user types in the sessions that explore the dispatch of
\* internal commands
Lines ==
    {<<":", "z", "z">>,
     <<":", "5", "z", "z">>,
     <<":", "f", "m", " ", "a">>,
     <<":", "f", "m", " ", "a", " ", "b", " ", "c", " ", "d">>,
     <<":", "2", "n", "e", "x", "t">>,
     <<":", "2", "f", "m", " ", "a", " ", "b", " ", "c">>,
     <<":", "h", "i", "d">>,
     <<":", "k">>,
     <<":", "s", "e", "t", " ", "w">>,
     <<":", "s", "e", "t", " ", "w", " ", "2">>,
     <<":", " ", "s", "e", "t", " ", "w", " ", "2">>,
     <<":", "!", "l", "s", "|">>}

\* the texts the user types in the sessions that explore the routes of run
RouteLines ==
    {<<":", "q">>,
     <<":", "n", "e", "x", "t">>,
     <<":", "c">>,
     <<":", "2", "n", "e", "x", "t">>,
     <<"/", "q">>,
     <<"/", "b">>,
     <<":", "!", "l", "s", "|">>,
     <<":", ".", "/", "q", ".", "j">>,
     <<":", "~">>,
     <<":", "5">>,
     <<":", " ">>,
     <<":", "!">>}

\* the texts the user types in the sessions that explore the history
HistLines ==
    {<<":", "q">>,
     <<":", "n", "e", "x", "t">>,
     <<":", "z", "z">>}

\* the texts the user types in the sessions that search the history
HistSearchLines ==
    {<<":", "n">>,
     <<":", "n", ".">>,
     <<":", "(">>}

\* the texts the user types in the sessions that search the file lists
SearchLines ==
    {<<"/", "Q">>,
     <<"/", "j">>,
     <<":", "2", "s", "n">>}

\* the keys bound to the search moves
SearchBindings ==
    {[key |-> <<"n">>, cmd |-> nameSearchNext],
     [key |-> <<"N">>, cmd |-> nameSearchPrev]}

\* the texts the user types in the sessions that run external commands
ExpandLines ==
    {<<":", "!", "e", " ", "%">>,
     <<":", "!", "e", " ", "*">>,
     <<":", "!", "e", " ", Backslash, "%">>,
     <<":", "!", "l", " ", "|">>,
     <<":", "!", "l", " ", Backslash, "|">>}

\* key bindings: the key name and the command bound to it
Bindings ==
    {[key |-> <<"n">>, cmd |-> nameNext],
     [key |-> <<"h">>, cmd |-> nameHidden],
     [key |-> <<"z">>, cmd |-> <<"z", "z">>]}

\* the external commands of the sessions that pipe: piped without and with
\* the name of a loaded file, and not piped with the name of the directory
PipeLines ==
    {<<":", "!", "l", "s", "|">>,
     <<":", "!", "c", " ", "q", ".", "j", "|">>,
     <<":", "!", "e", " ", "d">>}

\* what the processes of these sessions write to the pipe: nothing,
\* commands with and without a final newline, and the name of a file that
\* is no image
PipeOutputs ==
    {<<>>,
     <<"z", "z", "\n", "n", "e", "x", "t">>,
     <<"n", "e", "x", "t", "\n", "z", "z", "\n">>,
     <<".", "/", "t", "\n">>}

\* the texts of the sessions that complete: prefixes of commands, of a
\* counted command, of paths and of the path of an external command, a
\* text with a run of spaces, a search, and an alias that stands for an
\* external command
CompLines ==
    {<<":", "o">>,
     <<":", "s">>,
     <<":", "2", "n">>,
     <<":", ".", "/", "s">>,
     <<":", ".", "/", "a">>,
     <<":", "!", "e", " ", "s">>,
     <<":", "f", "m", " ", " ", "a">>,
     <<":", ".">>,
     <<"/", "q">>,
     <<":", "x">>}

\* what an external process may write to the pipe
Outputs ==
    {<<"z", "z", "\n">>,
     <<"h", "i", "d", "\n">>,
     <<"n", "e", "x", "t", "\n">>}

RouteOutputs ==
    {<<>>,
     <<"n", "e", "x", "t">>,
     <<"n", "e", "x", "t", "\n", "\n", "n", "e", "x", "t", "\n">>}

\* the views the command line is opened from
Views == {"lib", "man", "thu", "im"}

\* the history files a session may start with: lines in any order, read as
\* they are
HistoryFiles ==
    {<<>>,
     <<<<":", "z", "z">>>>,
     <<<<":", "n", "e", "x", "t">>, <<":", "z", "z">>>>,
     <<<<":", "n", "e", "x", "t">>, <<":", "n", "e", "x", "t">>>>,
     <<<<":", "z", "z">>, <<":", "n", "e", "x", "t">>, <<":", "z", "z">>>>}

\* the history files of the sessions that search the history
HistSearchFiles ==
    {<<<<":", "n", "e", "x", "t">>, <<":", "z", "z">>>>,
     <<<<":", "n", " ", " ", "x">>, <<":", "n", "e", "x", "t">>>>}

\* image lists of the sessions that search: three images of one directory,
\* and two images of the same name in two directories
SearchPaths ==
    {<< <<"/", "d", "/", "q", ".", "j">>, <<"/", "d", "/", "a", " ", "b">>,
        <<"/", "d", "/", "Q", "q">> >>,
     << <<"/", "d", "/", "q", ".", "j">>, <<"/", "e", "/", "q", ".", "j">> >>}

\* image lists of the sessions that run external commands: the active file
\* has a space in its name, or a "*"
ExpandPaths ==
    {<< <<"/", "d", "/", "a", " ", "b">>, <<"/", "d", "/", "q", ".", "j">> >>,
     << <<"/", "d", "/", "x", "*">>, <<"/", "d", "/", "q", ".", "j">> >>}

\* mark.marked in these sessions: nothing, or one file
ExpandMarks == {<<>>, << <<"/", "d", "/", "m", " ", "k">> >>}

\* app.paths at the start
paths0 == << <<"/", "d", "/", "q", ".", "j">>, <<"/", "d", "/", "a", " ", "b">> >>

(***************************************************************************)
(* Specification                                                           *)
(***************************************************************************)
\* the state after construction: the history file read, the settings taken,
\* the images of one of pathsets loaded, one of marks marked, the shuffle
\* setting one of shuffles and every file accessible
InitWith(histfiles, incs, cases, pathsets, marks, shuffles) ==
    /\ entry = <<>>
    /\ history \in histfiles
    /\ pos = 0
    /\ sub_history = <<>>
    /\ num_str = <<>>
    /\ aliases = aliases0
    /\ last_focused = ""
    /\ search_positions = <<>>
    /\ paths \in pathsets
    /\ index = 0
    /\ lib_pos = 0
    /\ thu_pos = 0
    /\ marked \in marks
    /\ edited = FALSE
    /\ shuffle \in shuffles
    /\ gone = {}
    /\ search_case \in cases
    /\ incsearch \in incs
    /\ running_processes = <<>>
    /\ threads = {}
    /\ timeouts = <<>>
    /\ tab_presses = 0
    /\ tab_position = 0
    /\ prefixed_digits = <<>>
    /\ treeview = [model |-> "", rows |-> <<>>]
    /\ connected = TRUE
    /\ active = "im"
    /\ search_view = ""
    /\ op = "init"
    /\ arg = <<>>
    /\ msgs = <<>>
    /\ invoked = <<>>
    /\ route = "none"
    /\ crashed = "no"
    /\ selected = <<>>
    /\ searched = <<>>
    /\ popen = <<>>
    /\ moved_up = <<>>
    /\ dispatched = <<>>
    /\ communicate = <<>>

\* the state after construction with the two images of paths0, none marked
InitOf(histfiles, incs) ==
    InitWith(histfiles, incs, {FALSE}, {paths0}, {<<>>}, {FALSE})

\* the caps of the model: the history and the processes in flight
Within(t, cap) ==
    /\ Len(t.history) <= cap
    /\ Cardinality(t.threads) + Len(t.timeouts) <= MaxProcs

\* the command line is open
Open == entry # <<>>

\* the user opens the command line from view
Focus(view) ==
    /\ ~Open
    /\ Set(focus([Begin("focus", <<>>) EXCEPT !.active = view], view))

\* the user opens the command line for a search
CmdSearch(view) ==
    /\ ~Open
    /\ Set(cmd_search([Begin("cmd_search", <<>>) EXCEPT !.active = view], view))

\* the user changes the entry text to text
Type(text) ==
    /\ Open
    /\ text # entry
    /\ Set(set_text(Begin("type", text), text))

\* the user presses Tab or Shift+Tab
Tab(inverse) ==
    /\ Open
    /\ tab_presses < MaxTab
    /\ Set(complete(Begin("complete",
                           IF inverse THEN <<"inverse">> ELSE <<>>), inverse))

\* the user presses Return: the entry's "activate" signal
Submit(cap) ==
    /\ Open
    /\ LET t == handler(Begin("handler", entry)) IN Within(t, cap) /\ Set(t)

\* the user presses Return while at most procs processes and reloads are
\* under way
SubmitWhile(procs) ==
    /\ Open
    /\ LET t == handler(Begin("handler", entry))
       IN /\ Len(t.history) <= MaxCmdHist
          /\ Cardinality(t.threads) + Len(t.timeouts) <= procs
          /\ Set(t)

\* a bound key is pressed while a view has the focus
KeyBinding(b) ==
    /\ ~Open
    /\ Set(run_command(Begin("key", b.cmd), b.cmd, b.key))

\* the user presses the key bound to history_down or history_up
HistorySearch(down) ==
    /\ Open
    /\ Set(history_search(Begin("history_search",
                                IF down THEN <<"down">> ELSE <<"up">>), down))

\* a digit key is pressed while a view has the focus
NumKey(d) ==
    /\ ~Open
    /\ Len(num_str) < MaxNum
    /\ Set([Begin("num", <<d>>) EXCEPT !.num_str = @ \o <<d>>])

\* another view takes the focus while the command line is closed
SwitchView(view) ==
    /\ ~Open
    /\ view # active
    /\ Set(switch_view(Begin("switch_view", <<>>), view))

\* an external process exits and its thread finishes
ThreadForExternal(th, returncode, out, err) ==
    /\ th \in threads
    /\ out # <<>> => th.from_pipe
    /\ Set(thread_for_external(Begin("thread", th.cmd), th, returncode, out,
                               err))

\* the timer runs reload_changes
ReloadChanges ==
    /\ timeouts # <<>>
    /\ Set(reload_changes(Begin("reload", Head(timeouts).out)))

\* the orders random.shuffle can give to a list of n entries
Orders(n) ==
    {f \in [1..n -> 1..n] : \A i, j \in 1..n : f[i] = f[j] => i = j}

\* the user presses the key bound to next or prev in the image view, and
\* the generator gives the order rand if the list is shuffled
MoveIndex(forward, rand) ==
    /\ ~Open
    /\ Set(move_index([Begin("move_index",
                             IF forward THEN <<"next">> ELSE <<"prev">>)
                          EXCEPT !.rand = rand], forward, TRUE, 1, FALSE))

\* the user loads the tag tagname, whose file lists tagged_images
TagLoad(tagname, tagged_images) ==
    /\ ~Open
    /\ Set(tag_load(Begin("tag_load", tagname), tagname, tagged_images))

\* the file path of the image list is deleted or made unreadable
Vanish(path) ==
    /\ InSeq(path, paths)
    /\ path \notin gone
    /\ Set([Begin("vanish", path) EXCEPT !.gone = @ \cup {path}])

\* the user manipulates the image shown
Edit ==
    /\ ~Open
    /\ paths # <<>>
    /\ ~edited
    /\ Set([Begin("edit", <<>>) EXCEPT !.edited = TRUE])

\* the steps of a session whose user types the texts of lines, opens the
\* command line from views and presses the keys of bindings, and whose
\* external processes write outputs
NextOf(lines, views, bindings, outputs) ==
    \/ \E view \in views : Focus(view)
    \/ \E text \in lines \cup {<<>>} : Type(text)
    \/ Submit(MaxCmdHist)
    \/ \E b \in bindings : KeyBinding(b)
    \/ \E th \in threads, returncode \in {0, 1}, out \in outputs :
          ThreadForExternal(th, returncode, out, <<>>)
    \/ ReloadChanges

\* the steps of a session whose user only types the texts of lines and
\* submits them
NextHist(lines, views) ==
    \/ \E view \in views : Focus(view)
    \/ \E text \in lines \cup {<<>>} : Type(text)
    \/ Submit(MaxHist)

\* sessions that dispatch internal commands
Init == InitOf({<<>>}, {FALSE})
Next == NextOf(Lines, {"im"}, Bindings, Outputs)
Spec == Init /\ [][Next]_vars

\* sessions that take every route of run
InitRoute == InitOf({<<>>}, {FALSE})
NextRoute == NextOf(RouteLines, {"im"}, {[key |-> <<"n">>, cmd |-> nameNext]}, RouteOutputs)
SpecRoute == InitRoute /\ [][NextRoute]_vars

\* sessions that fill the history
InitHist == InitOf(HistoryFiles, {FALSE})
NextHist3 == NextHist(HistLines, {"im"})
SpecHist == InitHist /\ [][NextHist3]_vars

\* sessions that search the history
InitHistSearch == InitWith(HistSearchFiles, {FALSE}, {FALSE}, {paths0}, {<<>>}, {FALSE})
NextHistSearch ==
    \/ NextHist(HistSearchLines, {"im"})
    \/ \E down \in BOOLEAN : HistorySearch(down)
SpecHistSearch == InitHistSearch /\ [][NextHistSearch]_vars

\* sessions that search the file lists and move through the matches
InitSearch == InitWith({<<>>}, {FALSE}, BOOLEAN, SearchPaths, {<<>>}, {FALSE})
NextSearch ==
    \/ \E view \in {"lib", "thu", "im"} : Focus(view)
    \/ \E text \in SearchLines \cup {<<>>} : Type(text)
    \/ Submit(MaxCmdHist)
    \/ \E b \in SearchBindings : KeyBinding(b)
    \/ NumKey("2")
    \/ \E view \in {"lib", "thu", "im"} : SwitchView(view)
SpecSearch == InitSearch /\ [][NextSearch]_vars

\* the same sessions with incremental search enabled
SpecInc ==
    /\ InitWith({<<>>}, {TRUE}, BOOLEAN, SearchPaths, {<<>>}, {FALSE})
    /\ [][NextSearch]_vars

\* sessions that run external commands on the files of the views
InitExpand == InitWith({<<>>}, {FALSE}, {FALSE}, ExpandPaths, ExpandMarks, {FALSE})
NextExpand ==
    \/ \E view \in {"lib", "im", "man"} : Focus(view)
    \/ \E text \in ExpandLines \cup {<<>>} : Type(text)
    \/ Submit(MaxCmdHist)
    \/ \E th \in threads, returncode \in {0, 1} :
          ThreadForExternal(th, returncode, <<>>, <<>>)
    \/ ReloadChanges
SpecExpand == InitExpand /\ [][NextExpand]_vars

\* sessions whose external processes exit with a status, an output and an
\* error text, started with the two images or with no image loaded
NextPipe ==
    \/ Focus("lib")
    \/ \E text \in PipeLines \cup {<<>>} : Type(text)
    \/ Submit(MaxCmdHist)
    \/ \E th \in threads, returncode \in {0, 1, 2}, out \in PipeOutputs,
          err \in {<<>>, <<"E">>} : ThreadForExternal(th, returncode, out, err)
    \/ ReloadChanges
SpecPipe ==
    /\ InitWith({<<>>}, {FALSE}, {FALSE}, {paths0, <<>>}, {<<>>}, {FALSE})
    /\ [][NextPipe]_vars

\* sessions with several external processes in flight
SpecProcs ==
    /\ Init
    /\ [][\/ Focus("lib")
          \/ \E text \in {<<":", "!", "e", " ", "d">>,
                           <<":", "!", "l", "s", "|">>, <<>>} : Type(text)
          \/ SubmitWhile(MaxProcs + 1)
          \/ \E th \in threads, returncode \in {0, 1} :
                ThreadForExternal(th, returncode, <<>>, <<>>)
          \/ ReloadChanges]_vars

\* sessions that spawn one command again and again, when every process
\* exits, its thread runs to its end and the timer fires
FairProcs ==
    /\ Init
    /\ [][\/ \E view \in {"lib", "im"} : Focus(view)
          \/ Type(<<":", "!", "e", " ", "d">>)
          \/ SubmitWhile(MaxProcs + 1)
          \/ \E th \in threads, returncode \in {0, 1} :
                ThreadForExternal(th, returncode, <<>>, <<>>)
          \/ ReloadChanges]_vars
    /\ \A p \in 1..(MaxProcs + 1) :
          WF_vars(\E th \in threads, returncode \in {0, 1} :
                     th.p = p /\ ThreadForExternal(th, returncode, <<>>, <<>>))
    /\ WF_vars(ReloadChanges)

\* image lists of the sessions that move through the images
ImagePaths ==
    {<< <<"/", "d", "/", "q", ".", "j">>, <<"/", "d", "/", "a", " ", "b">>,
        <<"/", "d", "/", "Q", "q">> >>}

\* sessions that search and move through the images of a shuffled list while
\* files vanish, tags are loaded and the image is edited
SpecImage ==
    /\ InitWith({<<>>}, {FALSE}, {FALSE}, ImagePaths, {<<>>}, BOOLEAN)
    /\ [][\/ Focus("im")
          \/ \E text \in {<<"/", "Q">>, <<>>} : Type(text)
          \/ Submit(MaxCmdHist)
          \/ \E b \in SearchBindings : KeyBinding(b)
          \/ \E forward \in BOOLEAN, rand \in Orders(Len(paths)) :
                MoveIndex(forward, rand)
          \/ \E path \in {paths[i] : i \in DOMAIN paths} : Vanish(path)
          \/ \E tagged_images \in {<<pathImage>>, <<pathText>>} :
                TagLoad(<<"g">>, tagged_images)
          \/ Edit]_vars

\* sessions that complete the entry text with Tab and Shift+Tab
NextComp ==
    \/ Focus("im")
    \/ \E text \in CompLines \cup {<<>>} : Type(text)
    \/ \E inverse \in BOOLEAN : Tab(inverse)
    \/ Submit(MaxCmdHist)
    \/ \E down \in BOOLEAN : HistorySearch(down)
SpecComp == Init /\ [][NextComp]_vars

(***************************************************************************)
(* Properties                                                              *)
(***************************************************************************)
\* the command a submit of text runs, without its leading colons
Typed(text) == lstrip(resolve(Cur, text), {":"})

\* the last operation made exactly one dispatch, of a command with a name
OneDispatch == Len(dispatched) = 1 /\ split(dispatched[1].cmd) # <<>>

\* a message of kind is among the messages of the last operation
Reported(kind) == \E i \in 1..Len(msgs) : msgs[i].kind = kind

\* the state a submit of text leads to from the current state
Submitted(text) == handler([Begin("handler", text) EXCEPT !.entry = text])

\* the same with an empty alias table
SubmittedUnaliased(text) ==
    handler([Begin("handler", text) EXCEPT !.entry = text,
                                           !.aliases = [a \in {} |-> <<>>]])

\* what a submit dispatched: the route, the calls and the repeat count
Dispatch(t) ==
    [route |-> t.route, dispatched |-> t.dispatched, invoked |-> t.invoked,
     popen |-> t.popen, moved_up |-> t.moved_up, searched |-> t.searched,
     msgs |-> t.msgs, crashed |-> t.crashed, num_str |-> t.num_str]

\* the number of times x occurs in q
Count(x, q) == Cardinality({i \in 1..Len(q) : q[i] = x})

RECURSIVE Without(_, _)
\* q without every occurrence of x
Without(q, x) ==
    IF q = <<>> THEN <<>>
    ELSE IF Head(q) = x THEN Without(Tail(q), x)
    ELSE <<Head(q)>> \o Without(Tail(q), x)

\* C1: a dispatch of a name that is not in the registry, typed, from a key
\* binding or from a line of the pipe, reports "No command called <name>",
\* invokes no handler and leaves the file list, the index, the search
\* positions and the pending repeat count as they were, also when the typed
\* text has leading digits.
C1_UnknownCommandNoMutation ==
    [][(/\ OneDispatch'
        /\ name_func(dispatched'[1].cmd) \notin DOMAIN commands)
        => /\ Len(msgs') = 1
           /\ msgs'[1].kind = "NoCommand"
           /\ msgs'[1].name = name_func(dispatched'[1].cmd)
           /\ invoked' = <<>>
           /\ paths' = paths
           /\ index' = index
           /\ search_positions' = search_positions
           /\ num_str' = num_str]_vars

\* C2: a dispatch of a registered command that is not hidden, with k tokens
\* after its name: with k below the number of positional parameters one
\* "Missing positional arguments" message that names the missing parameters
\* is the only message; with k above positional plus optional one "Too many
\* arguments" message is the only message; the handler is not invoked.
C2_ArgumentCountErrors ==
    OneDispatch =>
        LET cmd == dispatched[1].cmd
            name == name_func(cmd)
            k == Len(conf_args(cmd))
        IN (name \in DOMAIN commands /\ ~commands[name].is_hidden) =>
            LET P == Len(commands[name].positional_args)
                O == Len(commands[name].optional_args)
            IN /\ k < P =>
                   /\ Len(msgs) = 1
                   /\ msgs[1].kind = "MissingPositional"
                   /\ msgs[1].name = name
                   /\ \A i \in (k + 1)..P :
                          InSeq(commands[name].positional_args[i], msgs[1].args)
                   /\ invoked = <<>>
               /\ k > P + O =>
                   /\ Len(msgs) = 1
                   /\ msgs[1].kind = "TooManyArguments"
                   /\ msgs[1].name = name
                   /\ invoked = <<>>

\* a typed command with too few arguments has been rejected
C2_Witness ==
    /\ op = "handler"
    /\ arg = <<":", "f", "m", " ", "a">>
    /\ OneDispatch
    /\ Reported("MissingPositional")

\* the handler of the one dispatch ran once, with the default arguments
\* followed by the tokens, and with the repeat count the descriptor allows
InvokedOnce ==
    LET cmd == dispatched[1].cmd
        name == name_func(cmd)
    IN /\ Len(invoked) = 1
       /\ invoked[1].name = name
       /\ invoked[1].args = commands[name].default_args \o conf_args(cmd)
       /\ ~commands[name].supports_count => invoked[1].num_str = <<>>
       /\ (commands[name].supports_count /\ op = "handler") =>
              invoked[1].num_str = TakeDigits(lstrip(history[1], {":"}))

\* the one dispatch found its command and the token count fits
Accepted ==
    /\ OneDispatch
    /\ name_func(dispatched[1].cmd) \in DOMAIN commands
    /\ LET d == commands[name_func(dispatched[1].cmd)]
           k == Len(conf_args(dispatched[1].cmd))
       IN Len(d.positional_args) <= k
          /\ k <= Len(d.positional_args) + Len(d.optional_args)

\* C3 as stated: when the lookup succeeds and the token count k is between
\* the positional and the positional plus optional parameters, the handler
\* is invoked exactly once with default_args followed by the tokens; at the
\* invocation the repeat count is empty when supports_count is false and is
\* the leading digit run of the typed command when it is true.
C3_Original == Accepted => InvokedOnce

\* C3: the same for a command that is not hidden or is dispatched by a key
\* binding.
C3_HandlerInvokedOnce ==
    (/\ Accepted
     /\ \/ ~commands[name_func(dispatched[1].cmd)].is_hidden
        \/ dispatched[1].keyname # <<>>)
    => InvokedOnce

\* a typed command with a count has run its handler with that count
C3_Witness ==
    /\ op = "handler"
    /\ arg = <<":", "2", "n", "e", "x", "t">>
    /\ Accepted
    /\ Len(invoked) = 1
    /\ invoked[1].num_str = <<"2">>

\* C4: the handler of a hidden command is invoked only by a dispatch from a
\* key binding, never by a typed submit, a submitted alias or a line of the
\* pipe; every rejected call reports "Called a hidden command from the
\* command line".
C4_HiddenOnlyByKeyBinding ==
    /\ \A i \in 1..Len(invoked) :
          commands[invoked[i].name].is_hidden => op = "key"
    /\ \A i \in 1..Len(dispatched) :
          (/\ dispatched[i].keyname = <<>>
           /\ split(dispatched[i].cmd) # <<>>
           /\ name_func(dispatched[i].cmd) \in DOMAIN commands
           /\ commands[name_func(dispatched[i].cmd)].is_hidden)
          => Reported("HiddenCommand")

\* an alias that expands to a hidden command has been submitted and rejected
C4_Witness ==
    /\ op = "handler"
    /\ arg = <<":", "k">>
    /\ invoked = <<>>
    /\ Reported("HiddenCommand")

\* C5 as stated: for every alias a with expansion e, a submit of ":a"
\* dispatches what a submit of ":e" from the same state dispatches: the same
\* route, handler, arguments and repeat count.
C5_Original ==
    [][(op' = "handler" /\ tab_presses = 0 /\ Tail1(entry) \in DOMAIN aliases)
        => Dispatch(Cur') =
               Dispatch(Submitted(<<":">> \o aliases[Tail1(entry)]))]_vars

\* C5: a submit of ":a" dispatches what a submit of ":e" dispatches when e is
\* not itself an alias key; in every case it dispatches e itself, as a
\* submit of ":e" does with no alias defined: the expansion is applied once.
C5_AliasExpandedOnce ==
    [][(op' = "handler" /\ tab_presses = 0 /\ Tail1(entry) \in DOMAIN aliases)
        => LET e == aliases[Tail1(entry)] IN
           /\ e \notin DOMAIN aliases =>
                  Dispatch(Cur') = Dispatch(Submitted(<<":">> \o e))
           /\ Dispatch(Cur') = Dispatch(SubmittedUnaliased(<<":">> \o e))]_vars

\* an alias whose expansion is an alias key has been submitted: the
\* expansion itself was dispatched
C5_Witness ==
    /\ op = "handler"
    /\ arg = <<":", "c">>
    /\ history # <<>> /\ history[1] = <<":", "q">>
    /\ Len(dispatched) = 1
    /\ dispatched[1].cmd = <<"q">>

\* C6: a submitted line that starts with "/" is handled as a search: it
\* invokes no internal command, spawns no process and runs no path command.
C6_SearchLineOnlySearches ==
    (op = "handler" /\ arg # <<>> /\ arg[1] = "/")
    => /\ route = "search"
       /\ dispatched = <<>>
       /\ invoked = <<>>
       /\ popen = <<>>
       /\ moved_up = <<>>

C8_NoUnhandledException ==
    op \in {"handler", "reload"}
    => /\ crashed = "no"
       /\ route = "internal" => (invoked # <<>> \/ Len(msgs) = 1)

\* C9: after a submit the command it recorded is the first element of the
\* history and occurs once in it, the other entries keep their order, and
\* recording it again changes nothing.
C9_HistoryAppend ==
    [][(op' = "handler" /\ tab_presses = 0)
        => LET command == resolve(Cur, entry) IN
           /\ history' # <<>>
           /\ history'[1] = command
           /\ Count(command, history') = 1
           /\ Without(history', command) = Without(history, command)
           /\ remember(history', command) = history']_vars

\* C10: the history holds no string twice, whatever the history file held.
C10_HistoryHasNoDuplicates ==
    \A i, j \in 1..Len(history) : history[i] = history[j] => i = j

RECURSIVE Searches(_, _, _)
\* the state after k more calls of history_search in one direction
Searches(t, down, k) ==
    IF k = 0 THEN t ELSE Searches(history_search(t, down), down, k - 1)

\* the step is a call of history_search that came back
Searched == op' = "history_search" /\ crashed' = "no"

\* the cursor after a call: one up or one down, modulo n
Moved(n) == (IF arg' = <<"down">> THEN pos - 1 ELSE pos + 1) % n

\* C11: the first history_search after a text change builds the
\* sub-history of the typed text followed by the history entries that
\* literally start with it, in the order of the history, whatever
\* characters the text has.
C11_SubHistoryOfLiteralPrefix ==
    [][(op' = "history_search" /\ sub_history = <<>>)
        => LET starts(cmd) == startswith(cmd, entry) IN
           /\ crashed' = "no"
           /\ sub_history' = <<entry>> \o SelectSeq(history, starts)]_vars

\* C12: a call of history_search with a sub-history of length n moves the
\* cursor by one modulo n, keeps it within 0..n-1 and sets the entry text to
\* the sub-history element at the cursor; n calls in one direction from the
\* typed text return to it, and a down call after an up call restores the
\* text.
C12_HistoryCursor ==
    [][Searched
        => LET n == Len(sub_history') IN
           /\ 0 <= pos' /\ pos' < n
           /\ pos' = Moved(n)
           /\ entry' = sub_history'[pos' + 1]
           /\ arg' = <<"up">> => history_search(Cur', TRUE).entry = entry
           /\ \A down \in BOOLEAN :
                  Searches(Cur', down, n).entry = entry']_vars

\* C13: a change of the entry text that history_search did not make empties
\* the sub-history and sets the cursor to 0; the change history_search makes
\* leaves the sub-history as it built it and the cursor where it moved it;
\* after a submit the cursor is 0 and the sub-history empty.
C13_SubHistoryInvalidated ==
    [][/\ (op' # "history_search" /\ entry' # entry)
           => (sub_history' = <<>> /\ pos' = 0)
       /\ Searched
           => /\ sub_history' # <<>>
              /\ sub_history # <<>> => sub_history' = sub_history
              /\ pos' = Moved(Len(sub_history'))
       /\ (op' = "handler" /\ tab_presses = 0)
           => (sub_history' = <<>> /\ pos' = 0)]_vars

\* the indices, from 0, of the names that hold query, compared without
\* case when the search is not case sensitive
Matches(names, query, case) ==
    LET holds(i) == \/ contains(names[i + 1], query)
                    \/ ~case /\ contains(lower(names[i + 1]), lower(query))
    IN SelectSeq([i \in 1..Len(names) |-> i - 1], holds)

\* q is strictly increasing
StrictlyIncreasing(q) == \A i, j \in 1..Len(q) : i < j => q[i] < q[j]

\* C14: search sets search_positions to the indices at which the query is a
\* substring of the target list's entry (without case when search_case is
\* false), each index once and in increasing order, also when entries of
\* the list are equal.
C14_SearchPositions ==
    Len(searched) = 1
    => /\ search_positions = Matches(search_list(Cur), searched[1], search_case)
       /\ StrictlyIncreasing(search_positions)

\* the step is a search move made by the key bound to name
Navigates(name) == op' = "key" /\ arg' = name /\ Len(invoked') = 1

\* the repeat count a search move receives
RepeatCount == IF num_str = <<>> THEN 1 ELSE int(num_str)

\* C15: with a non-empty strictly increasing match list M of length n, the
\* cursor at p and the repeat count C >= 1, the forward move selects
\* M[(u + C - 1) mod n], u the number of matches <= p, and the backward move
\* M[(l - C) mod n], l the number of matches < p; the position selected is
\* an element of M.
C15_SearchMove ==
    [][\A name \in {nameSearchNext, nameSearchPrev} :
        (/\ Navigates(name)
         /\ search_positions # <<>>
         /\ StrictlyIncreasing(search_positions)
         /\ RepeatCount >= 1)
        => LET M == search_positions
               n == Len(M)
               p == get_pos(Cur)
               u == Cardinality({i \in 1..n : M[i] <= p})
               l == Cardinality({i \in 1..n : M[i] < p})
               k == IF name = nameSearchNext
                    THEN (u + RepeatCount - 1) % n
                    ELSE (l - RepeatCount) % n
           IN /\ get_pos(Cur') = M[k + 1]
              /\ InSeq(get_pos(Cur'), M)]_vars

\* from the matches 0 and 2 the forward move has wrapped from 2 to 0
C15_Witness ==
    /\ op = "key"
    /\ arg = nameSearchNext
    /\ Len(invoked) = 1
    /\ msgs = <<>>
    /\ search_positions = <<0, 2>>
    /\ get_pos(Cur) = 0

\* the step runs the handler of a search move
NavigateStep ==
    \E i \in 1..Len(invoked') :
        invoked'[i].name \in {nameSearchNext, nameSearchPrev}

Escaped(path) == replace(path, " ", <<Backslash, " ">>)

\* the list the claims substitute for "*"
ExpectedList ==
    IF marked # <<>> THEN marked
    ELSE IF last_focused = "lib" THEN files
    ELSE IF last_focused \in {"thu", "im"} THEN paths
    ELSE <<>>

RECURSIVE Expected(_, _)
\* the expansion the claims describe, of cmd from position i on: "%" is the
\* active file and "*" the list, their spaces escaped; a "%" or "*" after
\* a backslash is the character itself
Expected(cmd, i) ==
    IF i > Len(cmd) THEN <<>>
    ELSE IF cmd[i] = Backslash /\ i < Len(cmd) /\ cmd[i + 1] \in {"%", "*"}
    THEN <<cmd[i + 1]>> \o Expected(cmd, i + 2)
    ELSE IF cmd[i] = "%"
    THEN Escaped(get_pos_filename(Cur)) \o Expected(cmd, i + 1)
    ELSE IF cmd[i] = "*"
    THEN join([k \in 1..Len(ExpectedList) |-> Escaped(ExpectedList[k])],
              <<" ">>) \o Expected(cmd, i + 1)
    ELSE <<cmd[i]>> \o Expected(cmd, i + 1)

\* the last operation was the submit of one of texts as an external command
ExternalSubmit(texts) == op = "handler" /\ route = "external" /\ arg \in texts

\* the external command submitted, after its "!"
Command == Tail(lstrip(history[1], {":"}))

\* one process was started, with the command the claims describe
RunsExpected ==
    /\ crashed = "no"
    /\ Len(popen) = 1
    /\ popen[1].cmd = Expected(Command, 1)

\* C17: with a non-empty file list, every unescaped "%" is replaced by the
\* path of the active file with exactly one backslash before every space and
\* nothing else added, and every path substituted for "*" is escaped the
\* same way.
C17_SubstitutedPathsEscaped ==
    (/\ ExternalSubmit({<<":", "!", "e", " ", "%">>,
                        <<":", "!", "e", " ", "*">>})
     /\ ExpectedList # <<>>)
    => RunsExpected

\* C18: a "%" right after a backslash is not substituted and reaches the
\* shell as the character "%" itself, the escaping backslash of the user
\* removed.
C18_EscapedMarkersKept ==
    ExternalSubmit({<<":", "!", "e", " ", Backslash, "%">>}) => RunsExpected

\* C19: "*" stands for the marked files when any is marked, else for the
\* library listing when the library had the focus, else for the image list
\* when the thumbnail or image view had it; with none of these the markers
\* are substituted with an empty list and do not reach the shell.
C19_SubstitutionList ==
    /\ ExternalSubmit({<<":", "!", "e", " ", "*">>}) => RunsExpected
    /\ (ExternalSubmit({<<":", "!", "e", " ", "%">>}) /\ ExpectedList = <<>>)
       => /\ crashed = "no"
          /\ Len(popen) = 1
          /\ ~InSeq("%", popen[1].cmd)

\* C20: the output of an external command is captured exactly when the
\* command ends with a "|" that no backslash escapes; the shell then gets
\* the expanded command without that final marker.
C20_CaptureOnUnescapedPipe ==
    (/\ ExternalSubmit({<<":", "!", "l", " ", "|">>,
                        <<":", "!", "l", " ", Backslash, "|">>})
     /\ crashed = "no")
    => LET cmd == lstrip(history[1], {":"})
           marker == /\ cmd[Len(cmd)] = "|"
                     /\ cmd[Len(cmd) - 1] # Backslash
           expanded == expand_filenames(Cur, cmd)
       IN /\ Len(popen) = 1
          /\ popen[1].stdout = marker
          /\ marker => popen[1].cmd = SubSeq(expanded, 1, Len(expanded) - 1)

\* the worker thread of an external process ran to its end in this step
ThreadStep == op' = "thread"

\* the reload flag the claim describes for the command text cmd
NamesDirectoryOrFile(cmd) ==
    \/ contains(cmd, basename(cwd))
    \/ \E i \in 1..Len(paths) : contains(cmd, basename(paths[i]))

\* C21: every exit of an external process has exactly one outcome: a
\* non-zero status gives one error message with the status code and the
\* standard error and no reload_changes call; the status zero gives no
\* message and exactly one reload_changes call, whose reload flag tells
\* whether the command names the working directory or a loaded file and
\* whose pipe flag and output are those of the process.
C21_OneCompletionOutcome ==
    [][ThreadStep =>
         \E th \in threads :
            LET exit == communicate'[1] IN
            /\ threads' = threads \ {th}
            /\ IF exit.returncode # 0
               THEN /\ Len(msgs') = 1
                    /\ msgs'[1].style = "error"
                    /\ msgs'[1].args = <<str(exit.returncode), exit.err>>
                    /\ timeouts' = timeouts
               ELSE /\ msgs' = <<>>
                    /\ timeouts' =
                          Append(timeouts,
                                 [reload_path |-> NamesDirectoryOrFile(th.cmd),
                                  from_pipe |-> th.from_pipe,
                                  out |-> exit.out])]_vars

\* a piped command that names a loaded file but not the directory has
\* exited with status zero and an output
C21_Witness ==
    /\ op = "thread"
    /\ communicate[1].returncode = 0
    /\ communicate[1].out # <<>>
    /\ ~contains(arg, basename(cwd))
    /\ timeouts # <<>>
    /\ timeouts[Len(timeouts)].reload_path
    /\ timeouts[Len(timeouts)].from_pipe

\* C22: the worker thread of an external process changes neither the status
\* messages nor the list of running processes nor the file list nor the
\* history: these change only in steps of the user interface thread.
C22_WorkerMutatesNothingShared ==
    [][ThreadStep =>
         /\ msgs' = <<>>
         /\ running_processes' = running_processes
         /\ paths' = paths
         /\ index' = index
         /\ history' = history]_vars

\* the lines of the output out: its pieces between newlines, the piece after
\* a final newline not being a line
LinesOf(out) ==
    LET pieces == split_on(out, "\n") IN
    IF pieces[Len(pieces)] = <<>> THEN SubSeq(pieces, 1, Len(pieces) - 1)
    ELSE pieces

\* the timer handed the output of a piped process to pipe
Piped == op = "reload" /\ arg # <<>>

\* C23: when the first line of the output names neither a directory nor a
\* file, every line of the output is dispatched as a command once and in
\* the order of the output, whether the output ends with a newline or not.
C23_EveryLineDispatched ==
    (/\ Piped
     /\ ~isdir(LinesOf(arg)[1])
     /\ ~isfile(LinesOf(arg)[1]))
    => /\ crashed = "no"
       /\ [i \in 1..Len(dispatched) |-> dispatched[i].cmd] = LinesOf(arg)

\* C24: when the first line of the output names a file and no line is an
\* image, "No image found" is reported whenever the list is empty after
\* pipe, also when it was empty before, and a list that was empty stays so.
C24_NoImageFoundReported ==
    [][(/\ op' = "reload"
        /\ arg' # <<>>
        /\ isfile(LinesOf(arg')[1])
        /\ populate(LinesOf(arg')) = <<>>)
       => /\ paths = <<>> => (paths' = <<>> /\ index' = index)
          /\ paths' = <<>> => Reported("NoImageFound")']_vars

\* the completion type the claim gives the entry text
CompType(text) ==
    LET command == lstrip(text, {":"})
        tag(word) == startswith(command, <<"t", "a", "g", "_">> \o word)
    IN IF text # <<>> /\ text[1] # ":" THEN "search"
       ELSE IF command # <<>> /\ command[1] = "!" THEN "external"
       ELSE IF command # <<>> /\ command[1] \in {"/", ".", "~"} THEN "path"
       ELSE IF \/ tag(<<"w", "r", "i", "t", "e", " ">>)
               \/ tag(<<"r", "e", "m", "o", "v", "e", " ">>)
               \/ tag(<<"l", "o", "a", "d", " ">>)
       THEN "tag"
       ELSE IF startswith(command, <<"u", "n", "d", "e", "l", "e", "t", "e">>)
       THEN "trash"
       ELSE "internal"

\* the text arg, which starts with ":", was submitted and handed to run
Routed == op = "handler" /\ route # "none" /\ arg # <<>> /\ arg[1] = ":"

\* the completion type of the submitted text is external or path exactly
\* when run took the external or the path branch
TypeIsRoute ==
    /\ (CompType(arg) = "external") = (route = "external")
    /\ (CompType(arg) = "path") = (route = "path")

\* C25 as stated: the completion type is a function of the entry text with
\* the tests in the order search, external, path, tag, trash, internal, and
\* for every text that starts with ":" it is external or path exactly when
\* the submitted text goes to the external runner or the path command.
C25_Original ==
    /\ op # "init" => treeview.model = CompType(entry)
    /\ Routed => TypeIsRoute

\* C25: the completion type is a function of the entry text with the tests
\* in the order search, external, path, tag, trash, internal, and for a text
\* that starts with ":" and is not an alias after its first character it is
\* external or path exactly when run, given the text, takes the external
\* runner or the path command.
C25_CompTypeOfText ==
    /\ op # "init" => treeview.model = CompType(entry)
    /\ (Routed /\ Tail1(arg) \notin DOMAIN aliases) => TypeIsRoute

\* a text that starts with "." was submitted and went to the path command
C25_Witness ==
    /\ Routed
    /\ Tail1(arg) \notin DOMAIN aliases
    /\ Len(arg) >= 2
    /\ arg[2] = "."
    /\ route = "path"

\* text has no two spaces in a row
NoRunOfSpaces(text) ==
    \A i \in 1..(Len(text) - 1) : ~(text[i] = " " /\ text[i + 1] = " ")

\* the candidates the claims expect to be visible for text: those of its
\* type whose key starts with text without its colons and leading digits
Candidates(text) ==
    LET typed == lstrip(lstrip(text, {":"}), Digits)
        key(row) == startswith(row, typed)
    IN SelectSeq(liststore(CompType(text), lstrip(text, {":"})), key)

\* C26: after refilter, which runs on every change of the entry text, the
\* text has no run of spaces, the visible candidates are those of the text's
\* type whose key starts with the text without its leading ":" and digits,
\* the tab cycle is reset, and another refilter changes nothing.
C26_Refilter ==
    /\ [][entry' # entry =>
            /\ NoRunOfSpaces(entry')
            /\ treeview'.rows = Candidates(entry')
            /\ tab_position' = 0
            /\ tab_presses' = 0]_vars
    /\ []((op # "init" /\ tab_presses = 0) => refilter(Cur) = Cur)

\* a counted prefix was typed and its command is the visible candidate
C26_Witness ==
    /\ op = "type"
    /\ entry = <<":", "2", "n">>
    /\ treeview.rows = <<nameNext>>
    /\ prefixed_digits = <<"2">>

\* a text with two spaces in a row was typed and the run was collapsed
C26_WitnessSpaces ==
    /\ op = "type"
    /\ ~NoRunOfSpaces(arg)
    /\ entry = collapse(arg)

\* the longest prefix all of rows share
SharedPrefix(rows) ==
    LET shared(n) == \A k \in 1..Len(rows) :
                        /\ n <= Len(rows[k])
                        /\ SubSeq(rows[k], 1, n) = SubSeq(rows[1], 1, n)
        longest == CHOOSE n \in 0..Len(rows[1]) :
                      shared(n) /\ (n < Len(rows[1]) => ~shared(n + 1))
    IN SubSeq(rows[1], 1, longest)

\* ":", the numeric prefix of the entry text and the shared prefix of the
\* visible candidates
BestMatch ==
    <<":">> \o TakeDigits(lstrip(entry, {":"})) \o SharedPrefix(treeview.rows)

\* Tab or Shift+Tab was pressed with candidates visible and no cycle begun
FirstPress == op' = "complete" /\ tab_presses = 0 /\ treeview.rows # <<>>

\* C27: on the first tab press with candidates, if ":" + numeric prefix +
\* common prefix differs from the entry text, the entry text becomes exactly
\* that string and no candidate is selected; the common prefix is the
\* longest prefix all candidates share, and the candidates after the
\* insertion are those before it.
C27_BestMatchInserted ==
    [][(FirstPress /\ BestMatch # entry) =>
          /\ entry' = BestMatch
          /\ tab_presses' = 0
          /\ treeview'.rows = treeview.rows]_vars

\* C27, the insertion alone: the entry text becomes exactly ":" + numeric
\* prefix + common prefix
C27_InsertedExactly ==
    [][(FirstPress /\ BestMatch # entry) => entry' = BestMatch]_vars

\* the candidates "open" and "origin" are visible for the text ":o" and no
\* cycle has begun
OpenOrigin ==
    /\ entry = <<":", "o">>
    /\ treeview.rows = << <<"o", "p", "e", "n">>, <<"o", "r", "i", "g", "i", "n">> >>

\* C28: with the candidates "open" and "origin" and the text ":o", the
\* first complete(inverse = False) leaves the text ":o", since the common
\* prefix "o" cannot be extended; that press inserts nothing
\* and moves the cursor of the cycle nowhere.
C28_NothingToInsert ==
    [][(OpenOrigin /\ tab_presses = 0 /\ op' = "complete" /\ arg' = <<>>) =>
          /\ entry' = <<":", "o">>
          /\ tab_position' = tab_position
          /\ treeview' = treeview]_vars

C28_Witness ==
    /\ OpenOrigin
    /\ op = "complete"
    /\ arg = <<>>
    /\ tab_presses = 1
    /\ tab_position = 0

\* a press of Tab (inverse = FALSE) or Shift+Tab that leaves the text alone
\* while candidates are visible
Press(inverse) ==
    /\ op' = "complete"
    /\ arg' = (IF inverse THEN <<"inverse">> ELSE <<>>)
    /\ treeview.rows # <<>>
    /\ entry' = entry

\* C29: with n >= 1 candidates and a press that inserts nothing, the first
\* press puts the cursor (tab_position, the row set_cursor selects) on
\* candidate 0, or candidate n - 1 when inverse; every further
\* press moves the selection by +1, or -1 when inverse, modulo n; the
\* candidates stay as they are.  So n presses in one direction come back to
\* the candidate they started from and a press followed by an inverse press
\* restores the selection.
C29_CyclicSelection ==
    [][\A inverse \in BOOLEAN :
          Press(inverse) =>
              LET n == Len(treeview.rows)
                  step == IF inverse THEN n - 1 ELSE 1
              IN /\ treeview' = treeview
                 /\ tab_presses' = tab_presses + 1
                 /\ tab_position' = IF tab_presses = 0
                                    THEN (IF inverse THEN n - 1 ELSE 0)
                                    ELSE (tab_position + step) % n]_vars

\* three presses of Tab on two candidates: the selection has wrapped around
C29_Witness ==
    /\ op = "complete"
    /\ arg = <<>>
    /\ Len(treeview.rows) = 2
    /\ tab_presses = 3
    /\ tab_position = 0

\* C30: while a tab cycle is active (tab_presses > 0) there are candidates
\* and tab_position is the index of one of them; complete changes nothing
\* when there is no candidate, and neither complete nor the activation by
\* Return indexes outside the candidates: the activation reads the
\* candidate at tab_position and ends the cycle.  This holds however typing, tab presses,
\* history search, submitting and closing interleave.
C30_CursorWithinCandidates ==
    /\ [](tab_presses > 0 =>
             /\ treeview.rows # <<>>
             /\ tab_position \in 0..(Len(treeview.rows) - 1))
    /\ [](op = "complete" => crashed = "no")
    /\ [][(op' = "complete" /\ treeview.rows = <<>>) =>
             UNCHANGED <<entry, treeview, tab_presses, tab_position,
                         prefixed_digits>>]_vars
    /\ [][(op' = "handler" /\ tab_presses > 0) =>
             /\ crashed' = "no"
             /\ tab_position + 1 \in DOMAIN treeview.rows
             /\ tab_presses' = 0]_vars

\* Return has entered the second candidate, "origin", of a cycle
C30_Witness ==
    /\ op = "handler"
    /\ crashed = "no"
    /\ entry = <<":", "o", "r", "i", "g", "i", "n">>
    /\ tab_presses = 0

\* Tab was pressed with no candidate visible
C30_WitnessEmpty ==
    /\ op = "complete"
    /\ treeview.rows = <<>>
    /\ entry # <<>>

\* Return is pressed while a tab cycle is in progress
EnterInCycle == op' = "handler" /\ tab_presses # 0

\* the text activate enters: ":", the numeric prefix of the typed text and
\* the candidate at the cursor
Activated ==
    <<":">> \o TakeDigits(lstrip(entry, {":"}))
            \o treeview.rows[tab_position + 1]

\* C31: Return during a tab cycle only activates the selected candidate: the
\* entry text becomes ":" + numeric prefix + candidate, the tab cycle is
\* reset, the command line stays open, nothing is dispatched, spawned or
\* reported and the history is as it was.
C31_EnterOnlyActivates ==
    [][EnterInCycle =>
          /\ entry' = Activated
          /\ tab_presses' = 0
          /\ tab_position' = 0
          /\ Open'
          /\ dispatched' = <<>>
          /\ invoked' = <<>>
          /\ popen' = <<>>
          /\ msgs' = <<>>
          /\ history' = history]_vars

\* the lookup key of a dispatched text: its first token, or its first two
\* tokens joined by one space when the first token is "set"
LookupKey(cmd) ==
    IF split(cmd)[1] = nameSet
    THEN join(Slice(split(cmd), 0, 2), <<" ">>)
    ELSE split(cmd)[1]

\* the tokens after the lookup key
Arguments(cmd) ==
    IF split(cmd)[1] = nameSet
    THEN Slice(split(cmd), 2, Len(split(cmd)))
    ELSE Tail(split(cmd))

\* C32: whenever the first token of the dispatched text is "set", the
\* registry is looked up with the first two tokens joined by one space and
\* the remaining tokens are the arguments, whatever leading whitespace or
\* repeated spaces the text has: a registered key with a fitting number of
\* arguments runs its handler with the defaults followed by the arguments,
\* and every message names that key.
C32_SetCompoundKey ==
    (OneDispatch /\ split(dispatched[1].cmd)[1] = nameSet) =>
        LET key == LookupKey(dispatched[1].cmd)
            args == Arguments(dispatched[1].cmd)
        IN /\ \A i \in 1..Len(msgs) : msgs[i].name = key
           /\ \A i \in 1..Len(invoked) :
                 /\ invoked[i].name = key
                 /\ invoked[i].args = commands[key].default_args \o args
           /\ (/\ key \in DOMAIN commands
               /\ Len(args) <= Len(commands[key].optional_args))
              => Len(invoked) = 1

\* a submit or a key binding has returned, and every handler it ran is one
\* of this file (alias and the two search moves)
Returned ==
    /\ op \in {"handler", "key"}
    /\ crashed = "no"
    /\ \A i \in 1..Len(invoked) :
          invoked[i].name \in {nameAlias, nameSearchNext, nameSearchPrev}

\* C36: after a submit or a navigation has returned, whether it ran a
\* handler or reported an error, the pending repeat count is empty.
C36_NoCountLeftBehind == Returned => num_str = <<>>

\* C37: the text handed to the shell for an external command never begins
\* with the marker "!", whether or not a file list for the substitution
\* exists.
C37_ShellTextWithoutMarker ==
    \A i \in 1..Len(popen) : popen[i].cmd # <<>> => popen[i].cmd[1] # "!"

\* C38: the expansion is single-pass: the characters of a substituted path
\* are not taken as markers again, so for the one marker of "!e %" the
\* shell gets "e " followed by the path of the active file, named as it is
\* but for its escaped spaces, and by nothing else.
C38_SinglePassExpansion ==
    (ExternalSubmit({<<":", "!", "e", " ", "%">>}) /\ ExpectedList # <<>>) =>
        /\ Len(popen) = 1
        /\ popen[1].cmd = <<"e", " ">> \o Escaped(get_pos_filename(Cur))

\* the numbers of the processes whose thread has not finished
Unfinished == {th.p : th \in threads}

\* C35: with any number of external commands running at once and any order
\* of their completions, running_processes holds exactly the processes that
\* were spawned and whose completion has not been handled.
C35_RunningProcessesExact ==
    {running_processes[i] : i \in 1..Len(running_processes)} = Unfinished

\* C39: when every spawned process exits, the completion of every spawned
\* process is handled, by one step that ends its thread and takes one entry
\* from running_processes; the length of running_processes is always the
\* number of spawned processes whose thread has not finished, so the list
\* is empty once all have finished, and it grows only by a spawn.
C39_EveryCompletionHandled ==
    /\ \A p \in 1..(MaxProcs + 1) : (p \in Unfinished) ~> (p \notin Unfinished)
    /\ [](Len(running_processes) = Cardinality(threads))
    /\ [][ThreadStep =>
             /\ \E th \in threads : threads' = threads \ {th}
             /\ Len(running_processes') = Len(running_processes) - 1]_vars
    /\ [][Len(running_processes') > Len(running_processes) =>
             /\ op' = "handler"
             /\ Len(popen') = 1]_vars

\* the last of two processes in flight has been handled
C39_Witness ==
    /\ op = "thread"
    /\ threads = {}
    /\ running_processes = <<>>
    /\ Len(timeouts) = 2

\* the list a search looks through and the cursor it moves, for the view
\* the command line was opened from
Names ==
    IF last_focused = "lib" THEN files
    ELSE [i \in 1..Len(paths) |-> basename(paths[i])]

Cursor ==
    IF last_focused = "lib" THEN lib_pos
    ELSE IF last_focused = "thu" THEN thu_pos
    ELSE index

\* the first of the matches M at or after position p, or the smallest one
FirstFrom(M, p) ==
    LET all == {M[i] : i \in 1..Len(M)}
        later == {m \in all : m >= p}
        from == IF later # {} THEN later ELSE all
    IN CHOOSE m \in from : \A k \in from : m <= k

\* the entry holds a search text of at least two characters
SearchText(text) == Len(text) >= 2 /\ text[1] = "/"

\* C34: with incremental search enabled, every change of the entry text to
\* a text that starts with "/" and has two or more characters recomputes
\* search_positions for the partial query and moves the cursor to the first
\* match at or after its position, wrapping to the smallest match; a later
\* submit of that text does not search again and leaves search_positions
\* as they are.
C34_IncrementalSearch ==
    /\ [][(incsearch /\ entry' # entry /\ SearchText(entry')) =>
             /\ search_positions' =
                   Matches(Names', lstrip(entry', {"/"}), search_case)
             /\ search_positions' # <<>> =>
                   Cursor' = FirstFrom(search_positions', Cursor)]_vars
    /\ [][(incsearch /\ op' = "handler" /\ SearchText(entry)) =>
             /\ searched' = <<>>
             /\ search_positions' = search_positions]_vars


\* the query of the last search, the newest line of the history
LastQuery == Tail(history[1])

\* name holds query, compared as the search compares
Holds(name, query) ==
    \/ contains(name, query)
    \/ ~search_case /\ contains(lower(name), lower(query))

\* C33: whenever a search move in the image view selects a position, that
\* position is a valid index of the image list and the entry at it contains
\* the query of the last search, also when images were moved through with a
\* reshuffle on wrap-around or a file that cannot be read was taken from the
\* list between the search and the move.
C33_SelectsAMatch ==
    [][(/\ NavigateStep
        /\ last_focused = "im"
        /\ search_positions # <<>>
        /\ ~edited)
        => /\ index' + 1 \in DOMAIN paths'
           /\ Holds(basename(paths'[index' + 1]), LastQuery)]_vars

\* C40: whenever the image list is not empty, the index is one of its
\* positions, counted from 0.
C40_IndexWithinList == paths # <<>> => index \in 0..(Len(paths) - 1)

====
